---- MODULE Spec2Model ----
(***************************************************************************)
(* Model of the fluent HTTP client engine of Modular: the Request builder, *)
(* the filter pipeline and the attempt loop of Request::executeInternal.   *)
(* One Request created from one Client is configured (builder calls),      *)
(* executed (request-phase filters, attempt loop around the transport,     *)
(* response-phase filters, retry decision, pre-retry sleep) and ends with  *)
(* a Response or a raised error.                                           *)
(***************************************************************************)
EXTENDS Integers, Sequences, FiniteSets, TLC

(***************************************************************************)
(* Bounds of the model.                                                    *)
(***************************************************************************)
\* largest maxRetries a retry config is constructed with
MaxRetriesB == 3
\* largest number of filters attached to the Client and the Request together
MaxFilters == 3
\* largest number of filter types removed on the Request
MaxRemoved == 1
\* largest number of exchanges one Request asks the transport for
MaxExchanges == 2
\* largest number of configs added to a RetryCoordinator
MaxConfigs == 2
\* largest attempt number ServerErrorRetryConfig::getDelay is called with
MaxBackoffAttempt == 34
\* seconds the clock advances tick by tick while the limiter is used
MaxClock == 2
\* milliseconds by which the clock advances in one step
ClockStep == 500
\* largest number of asString and asJson calls made on one Response
MaxCalls == 3

(***************************************************************************)
(* Filters.  A filter object has a dynamic type and a priority.            *)
(***************************************************************************)
\* IHttpFilter::priority() of each filter type; "UserFilter" is a caller's
\* own IHttpFilter subclass whose priority() returns 300.
LoggingPriority == 100
MockPriority == 500
RateLimitPriority == 500
DefaultErrorPriority == 9000

\* filter objects a caller adds to the Client (FluentClient::filters().add)
ClientFilterPool == {"mockA", "err"}
\* filter objects a caller adds to the Request (Request::withFilter)
RequestFilterPool == {"user", "log", "mockB"}
FilterIds == ClientFilterPool \cup RequestFilterPool

\* typeid(*filter)
FilterType(f) ==
    CASE f = "log" -> "LoggingFilter"
      [] f = "user" -> "UserFilter"
      [] f \in {"mockA", "mockB"} -> "MockFilter"
      [] f = "err" -> "DefaultErrorFilter"
      [] f = "rl" -> "RateLimitFilter"

FilterTypes == {FilterType(f) : f \in FilterIds}

\* the filter types a caller removes on a Request (withoutFilter<T>): those
\* of the Client's filters
RemovableTypes == {FilterType(f) : f \in ClientFilterPool}

\* filter->priority()
Priority(f) ==
    CASE FilterType(f) = "LoggingFilter" -> LoggingPriority
      [] FilterType(f) = "UserFilter" -> 300
      [] FilterType(f) = "MockFilter" -> MockPriority
      [] FilterType(f) = "DefaultErrorFilter" -> DefaultErrorPriority
      [] FilterType(f) = "RateLimitFilter" -> RateLimitPriority

(***************************************************************************)
(* Sequence helpers.                                                       *)
(***************************************************************************)
Range(s) == {s[i] : i \in 1..Len(s)}

Reverse(s) == [i \in 1..Len(s) |-> s[Len(s) + 1 - i]]

IsPrefix(p, s) == Len(p) <= Len(s) /\ SubSeq(s, 1, Len(p)) = p

\* all arrangements of the elements of s (s has no repeated element)
Arrangements(s) ==
    {p \in [1..Len(s) -> Range(s)] : Range(p) = Range(s)}

\* variant of SortAscending that leaves the list in insertion order
SortAscendingUnsorted(s) == {s}

\* std::sort with comparator a->priority() < b->priority(): the order of
\* elements of equal priority is unspecified, every sorted arrangement is a
\* possible result.
SortAscending(s) ==
    {p \in Arrangements(s) :
        \A i, j \in 1..Len(p) : i < j => ~(Priority(p[j]) < Priority(p[i]))}

\* std::sort with comparator a->priority() > b->priority()
SortDescending(s) ==
    {p \in Arrangements(s) :
        \A i, j \in 1..Len(p) : i < j => ~(Priority(p[j]) > Priority(p[i]))}

(***************************************************************************)
(* Retry configs (IRetryConfig.h).  A config is a record; kind "none" is   *)
(* the null retryConfig_ pointer.                                          *)
(***************************************************************************)
\* RateLimitRetryConfig::getDelay: std::chrono::seconds{60}, in milliseconds
RateLimitDelayMs == 60000

NoConfig ==
    [kind |-> "none", maxRetries |-> 0, initialDelay |-> 0, maxDelay |-> 0]

ServerErrorRetryConfig(m, initial, maxd) ==
    [kind |-> "ServerError", maxRetries |-> m, initialDelay |-> initial,
     maxDelay |-> maxd]

RateLimitRetryConfig(m) ==
    [kind |-> "RateLimit", maxRetries |-> m, initialDelay |-> 0, maxDelay |-> 0]

TimeoutRetryConfig(m, d) ==
    [kind |-> "Timeout", maxRetries |-> m, initialDelay |-> d, maxDelay |-> 0]

\* the retry configs a caller passes to withRetryConfig: server-error configs
\* of every maxRetries up to the bound with initialDelay 10ms and maxDelay
\* 25ms, RateLimitRetryConfig(1), TimeoutRetryConfig(2, 500ms)
RetryConfigs ==
    {ServerErrorRetryConfig(m, 10, 25) : m \in (-1)..MaxRetriesB}
    \cup {RateLimitRetryConfig(1), TimeoutRetryConfig(2, 500)}

\* variant of ServerErrorShouldRetry that also accepts client errors
ServerErrorShouldRetryClientErrors(statusCode, isTimeout) ==
    isTimeout \/ (statusCode >= 400 /\ statusCode < 600)

ServerErrorShouldRetry(statusCode, isTimeout) ==
    isTimeout \/ (statusCode >= 500 /\ statusCode < 600)

RateLimitShouldRetry(statusCode, isTimeout) ==
    statusCode = 429

TimeoutShouldRetry(statusCode, isTimeout) ==
    isTimeout

\* retryConfig_->shouldRetry(statusCode, isTimeout)
ShouldRetry(cfg, statusCode, isTimeout) ==
    CASE cfg.kind = "ServerError" -> ServerErrorShouldRetry(statusCode, isTimeout)
      [] cfg.kind = "RateLimit" -> RateLimitShouldRetry(statusCode, isTimeout)
      [] cfg.kind = "Timeout" -> TimeoutShouldRetry(statusCode, isTimeout)
      [] OTHER -> FALSE

\* 1 << n on a 32-bit int, n in 0..31
ShiftOne(n) == IF n < 31 THEN 2 ^ n ELSE -2147483647 - 1

Min(a, b) == IF a < b THEN a ELSE b

\* variant of ServerErrorGetDelay whose exponent is attempt instead of attempt-1
ServerErrorGetDelayShifted(cfg, attempt) ==
    Min(cfg.initialDelay * ShiftOne(attempt), cfg.maxDelay)

\* ServerErrorRetryConfig::getDelay: min(initialDelay * (1 << (attempt-1)), maxDelay)
ServerErrorGetDelay(cfg, attempt) ==
    Min(cfg.initialDelay * ShiftOne(attempt - 1), cfg.maxDelay)

\* retryConfig_->getDelay(attempt, statusCode), in milliseconds
GetDelay(cfg, attempt, statusCode) ==
    CASE cfg.kind = "ServerError" -> ServerErrorGetDelay(cfg, attempt)
      [] cfg.kind = "RateLimit" -> RateLimitDelayMs
      [] cfg.kind = "Timeout" -> cfg.initialDelay
      [] OTHER -> 0

(***************************************************************************)
(* Header maps and number parsing.  A string is a sequence of characters;  *)
(* a Headers value (std::map<std::string, std::string>) is a function from *)
(* the header names present to their values.                               *)
(***************************************************************************)
\* the header names of the model, in the iteration order of std::map
\* (byte-wise comparison: upper-case letters sort before lower-case ones)
HeaderKeyOrder ==
    <<"Accept", "Authorization", "Retry-After", "User-Agent",
      "X-RL-Daily-Remaining", "X-RL-Hourly-Remaining", "X-Trace",
      "authorization", "retry-after", "x-rl-daily-limit", "x-rl-daily-remaining",
      "x-rl-daily-reset", "x-rl-hourly-limit", "x-rl-hourly-remaining",
      "x-rl-hourly-reset">>

\* std::tolower applied to every character of a header name
ToLower(name) ==
    CASE name = "Retry-After" -> "retry-after"
      [] name = "X-RL-Daily-Remaining" -> "x-rl-daily-remaining"
      [] name = "X-RL-Hourly-Remaining" -> "x-rl-hourly-remaining"
      [] name = "Authorization" -> "authorization"
      [] name = "User-Agent" -> "user-agent"
      [] name = "Accept" -> "accept"
      [] name = "X-Trace" -> "x-trace"
      [] OTHER -> name

\* iequals(a, b)
IEquals(a, b) == ToLower(a) = ToLower(b)

NoHeaders == [k \in {} |-> <<>>]

\* the positions in HeaderKeyOrder of the keys of headers that match name
MatchingKeys(headers, name) ==
    {i \in 1..Len(HeaderKeyOrder) :
        /\ HeaderKeyOrder[i] \in DOMAIN headers
        /\ IEquals(HeaderKeyOrder[i], name)}

\* detail::findHeader: the value of the first key, in map order, that equals
\* name case-insensitively; the empty string when there is none
FindHeader(headers, name) ==
    LET m == MatchingKeys(headers, name)
    IN IF m = {} THEN <<>>
       ELSE headers[HeaderKeyOrder[CHOOSE i \in m : \A j \in m : i <= j]]

\* a lookup of the key as it is written
GetHeaderValueExact(headers, key) ==
    IF key \in DOMAIN headers THEN headers[key] ELSE <<>>

\* RateLimiter::getHeaderValue: the same lookup, on lower-cased copies
GetHeaderValue(headers, key) ==
    LET key_lower == ToLower(key)
        m == {i \in 1..Len(HeaderKeyOrder) :
                 /\ HeaderKeyOrder[i] \in DOMAIN headers
                 /\ ToLower(HeaderKeyOrder[i]) = key_lower}
    IN IF m = {} THEN <<>>
       ELSE headers[HeaderKeyOrder[CHOOSE i \in m : \A j \in m : i <= j]]

DigitChars == {"0", "1", "2", "3", "4", "5", "6", "7", "8", "9"}

DigitValue(c) ==
    CASE c = "0" -> 0 [] c = "1" -> 1 [] c = "2" -> 2 [] c = "3" -> 3
      [] c = "4" -> 4 [] c = "5" -> 5 [] c = "6" -> 6 [] c = "7" -> 7
      [] c = "8" -> 8 [] c = "9" -> 9

\* INT_MAX and INT_MIN of a 32-bit int
IntMax == 2147483647
IntMin == -2147483647 - 1

\* the negated value of the run of digits of s that starts at position i,
\* accumulated as strtol does; 1 when the value leaves the range of int
RECURSIVE DigitRun(_, _, _)
DigitRun(s, i, acc) ==
    IF acc = 1 \/ i > Len(s) \/ s[i] \notin DigitChars THEN acc
    ELSE IF acc < (IntMin + DigitValue(s[i])) \div 10 + 
                  (IF (IntMin + DigitValue(s[i])) % 10 = 0 THEN 0 ELSE 1)
    THEN 1
    ELSE DigitRun(s, i + 1, acc * 10 - DigitValue(s[i]))

\* the first position of s that holds no blank, Len(s)+1 if there is none
RECURSIVE SkipBlanks(_, _)
SkipBlanks(s, i) ==
    IF i > Len(s) \/ s[i] # " " THEN i ELSE SkipBlanks(s, i + 1)

\* std::stoi: blanks, an optional sign, then the longest run of digits; ok is
\* FALSE where it throws (std::invalid_argument without a digit,
\* std::out_of_range for a value outside int)
Stoi(s) ==
    LET start == SkipBlanks(s, 1)
        signed == start <= Len(s) /\ s[start] \in {"-", "+"}
        negative == signed /\ s[start] = "-"
        first == IF signed THEN start + 1 ELSE start
        negated == DigitRun(s, first, 0)
    IN IF first > Len(s) \/ s[first] \notin DigitChars
       THEN [ok |-> FALSE, value |-> 0]
       ELSE IF negated = 1 \/ (~negative /\ negated = IntMin)
       THEN [ok |-> FALSE, value |-> 0]
       ELSE [ok |-> TRUE, value |-> IF negative THEN negated ELSE -negated]

\* std::stoll on the strings of the model, whose values all fit an int: it
\* differs from std::stoi only in the range it accepts
Stoll(s) == Stoi(s)

(***************************************************************************)
(* The rate limiter (core/RateLimiter).  Its state is a record of the six  *)
(* fields; times are seconds since the epoch.                              *)
(***************************************************************************)
\* the default member initialisers of RateLimiter.h
DefaultDailyLimit == 20000
DefaultHourlyLimit == 500

\* std::chrono::hours(1) and std::chrono::hours(24), in seconds
HourSeconds == 3600
DaySeconds == 86400

\* time points are counted in milliseconds; std::chrono::seconds(1) is
MillisPerSecond == 1000

\* RateLimiter::RateLimiter, constructed at time t
NewLimiter(t) ==
    [dailyLimit |-> DefaultDailyLimit, dailyRemaining |-> DefaultDailyLimit,
     dailyReset |-> t + DaySeconds * MillisPerSecond,
     hourlyLimit |-> DefaultHourlyLimit, hourlyRemaining |-> DefaultHourlyLimit,
     hourlyReset |-> t + HourSeconds * MillisPerSecond]

\* variant of ParseTimestamp that yields the epoch for a text it cannot read
ParseTimestampEpoch(ts_str, t) ==
    IF ts_str = <<>> THEN t
    ELSE IF Stoll(ts_str).ok THEN Stoll(ts_str).value * MillisPerSecond ELSE 0

\* RateLimiter::parseTimestamp, called at time t
ParseTimestamp(ts_str, t) ==
    IF ts_str = <<>> THEN t
    ELSE IF Stoll(ts_str).ok THEN Stoll(ts_str).value * MillisPerSecond ELSE t

\* the six assignments of updateFromHeaders, in the order of the code
UpdateSteps ==
    <<[field |-> "dailyLimit", header |-> "x-rl-daily-limit", time |-> FALSE],
      [field |-> "dailyRemaining", header |-> "x-rl-daily-remaining", time |-> FALSE],
      [field |-> "dailyReset", header |-> "x-rl-daily-reset", time |-> TRUE],
      [field |-> "hourlyLimit", header |-> "x-rl-hourly-limit", time |-> FALSE],
      [field |-> "hourlyRemaining", header |-> "x-rl-hourly-remaining", time |-> FALSE],
      [field |-> "hourlyReset", header |-> "x-rl-hourly-reset", time |-> TRUE]>>

\* the assignments of updateFromHeaders from the i-th on: the limiter they
\* leave, and whether a std::stoi threw (the later assignments are then not
\* made)
RECURSIVE UpdateFrom(_, _, _, _)
UpdateFrom(lim, headers, t, i) ==
    IF i > Len(UpdateSteps) THEN [limiter |-> lim, threw |-> FALSE]
    ELSE LET step == UpdateSteps[i]
             text == GetHeaderValue(headers, step.header)
         IN IF text = <<>> THEN UpdateFrom(lim, headers, t, i + 1)
            ELSE IF step.time
            THEN UpdateFrom([lim EXCEPT ![step.field] = ParseTimestamp(text, t)],
                            headers, t, i + 1)
            ELSE IF Stoi(text).ok
            THEN UpdateFrom([lim EXCEPT ![step.field] = Stoi(text).value],
                            headers, t, i + 1)
            ELSE [limiter |-> lim, threw |-> TRUE]

\* RateLimiter::updateFromHeaders, called at time t
UpdateFromHeaders(lim, headers, t) == UpdateFrom(lim, headers, t, 1)

\* canMakeRequest as its comment describes it: either window has quota
CanMakeRequestEither(lim) == lim.dailyRemaining > 0 \/ lim.hourlyRemaining > 0

\* RateLimiter::canMakeRequest
CanMakeRequest(lim) == lim.dailyRemaining > 0 /\ lim.hourlyRemaining > 0

\* RateLimitStatus::canRequest on the status of the limiter
CanRequest(st) == st.dailyRemaining > 0 /\ st.hourlyRemaining > 0

\* a state file: whether it exists, whether json::parse accepts it as an
\* object, its integer members and the keys whose value is not a number
NoMembers == [k \in {} |-> 0]
StateFile(exists, parses, ints, wrongType) ==
    [exists |-> exists, parses |-> parses, ints |-> ints, wrongType |-> wrongType]

\* the six assignments of loadState, in the order of the code: the first four
\* use state.value(key, default), the last two are made only if the key is
\* present and read epoch seconds
LoadSteps ==
    <<[field |-> "dailyLimit", key |-> "daily_limit",
       optional |-> FALSE, default |-> DefaultDailyLimit],
      [field |-> "dailyRemaining", key |-> "daily_remaining",
       optional |-> FALSE, default |-> DefaultDailyLimit],
      [field |-> "hourlyLimit", key |-> "hourly_limit",
       optional |-> FALSE, default |-> DefaultHourlyLimit],
      [field |-> "hourlyRemaining", key |-> "hourly_remaining",
       optional |-> FALSE, default |-> DefaultHourlyLimit],
      [field |-> "dailyReset", key |-> "daily_reset",
       optional |-> TRUE, default |-> 0],
      [field |-> "hourlyReset", key |-> "hourly_reset",
       optional |-> TRUE, default |-> 0]>>

\* the assignments of loadState from the i-th on; a member of the wrong type
\* throws, the exception is caught and the later assignments are not made
RECURSIVE LoadFrom(_, _, _)
LoadFrom(lim, file, i) ==
    IF i > Len(LoadSteps) THEN lim
    ELSE LET step == LoadSteps[i]
         IN IF step.key \in file.wrongType THEN lim
            ELSE IF step.key \in DOMAIN file.ints
            THEN LoadFrom([lim EXCEPT ![step.field] =
                               IF step.optional
                               THEN file.ints[step.key] * MillisPerSecond
                               ELSE file.ints[step.key]],
                          file, i + 1)
            ELSE IF step.optional THEN LoadFrom(lim, file, i + 1)
            ELSE LoadFrom([lim EXCEPT ![step.field] = step.default], file, i + 1)

\* loadState if it read a missing file as an empty object
LoadStateMissingAsEmpty(lim, file) ==
    IF file.exists /\ ~file.parses THEN lim ELSE LoadFrom(lim, file, 1)

\* loadState if it read a file that is not valid JSON as an empty object
LoadStateUnparsedAsEmpty(lim, file) ==
    IF ~file.exists THEN lim
    ELSE IF ~file.parses THEN LoadFrom(lim, StateFile(TRUE, TRUE, NoMembers, {}), 1)
    ELSE LoadFrom(lim, file, 1)

\* RateLimiter::loadState
LoadState(lim, file) ==
    IF ~file.exists \/ ~file.parses THEN lim ELSE LoadFrom(lim, file, 1)

\* saveState if it wrote the four counters only
SaveStateCountersOnly(lim) ==
    StateFile(TRUE, TRUE,
              ("daily_limit" :> lim.dailyLimit)
                  @@ ("daily_remaining" :> lim.dailyRemaining)
                  @@ ("hourly_limit" :> lim.hourlyLimit)
                  @@ ("hourly_remaining" :> lim.hourlyRemaining),
              {})

\* RateLimiter::saveState when the file can be opened: the four counters and
\* the two reset times as whole epoch seconds
SaveState(lim) ==
    StateFile(TRUE, TRUE,
              ("daily_limit" :> lim.dailyLimit)
                  @@ ("daily_remaining" :> lim.dailyRemaining)
                  @@ ("hourly_limit" :> lim.hourlyLimit)
                  @@ ("hourly_remaining" :> lim.hourlyRemaining)
                  @@ ("daily_reset" :> lim.dailyReset \div MillisPerSecond)
                  @@ ("hourly_reset" :> lim.hourlyReset \div MillisPerSecond),
              {})

\* RateLimitStatus::timeUntilAllowed on the status of the limiter, called at
\* time t, in milliseconds
TimeUntilAllowed(st, t) ==
    IF CanRequest(st) THEN 0
    ELSE IF st.dailyRemaining <= 0
    THEN (IF st.dailyReset - t > 0 THEN st.dailyReset - t ELSE 0)
    ELSE IF st.hourlyRemaining <= 0
    THEN (IF st.hourlyReset - t > 0 THEN st.hourlyReset - t ELSE 0)
    ELSE 0

\* the reset time RateLimitFilter::onRequest picks: the hourly one first
WaitUntilHourlyFirst(lim) ==
    IF lim.hourlyRemaining <= 0 THEN lim.hourlyReset ELSE lim.dailyReset

\* the reset time waitIfNeeded waits for when canMakeRequest() is false
WaitUntil(lim) ==
    IF lim.dailyRemaining <= 0 THEN lim.dailyReset ELSE lim.hourlyReset

(***************************************************************************)
(* Transport outcomes and results of an execution.                         *)
(***************************************************************************)
\* status codes the server answers with
Statuses == {200, 401, 404, 429, 503}

\* NetworkException::Reason values HttpClientBridge raises
NetworkReasons == {"Timeout", "ConnectionFailed"}

ResponseOutcome(status) == [kind |-> "response", status |-> status, reason |-> ""]
NetworkOutcome(reason) == [kind |-> "network", status |-> 0, reason |-> reason]

\* exception classes of fluent/Exceptions.h
FluentExceptionTypes ==
    {"FluentException", "NetworkException", "ApiException",
     "RateLimitException", "AuthException", "ParseException",
     "ConfigurationException"}

NoResult ==
    [kind |-> "none", type |-> "", status |-> 0, reason |-> "", attemptNo |-> 0]

ReturnedResponse(status, n) ==
    [kind |-> "response", type |-> "", status |-> status, reason |-> "",
     attemptNo |-> n]

RaisedError(type, status, reason, n) ==
    [kind |-> "error", type |-> type, status |-> status, reason |-> reason,
     attemptNo |-> n]

\* is_success_status
IsSuccessStatusCode(status) == status >= 200 /\ status < 300

\* DefaultErrorFilter::onResponse: the exception class raised, "" when it
\* returns normally
DefaultErrorRaises(status, httpErrorAsException) ==
    IF ~httpErrorAsException THEN ""
    ELSE IF status = 429 THEN "RateLimitException"
    ELSE IF status = 401 \/ status = 403 THEN "AuthException"
    ELSE IF ~IsSuccessStatusCode(status) THEN "ApiException"
    ELSE ""

\* variant of DefaultErrorRetryAfter that ignores the header
DefaultErrorRetryAfterFixed(headers) == 60

\* the retryAfter, in seconds, DefaultErrorFilter::onResponse gives the
\* RateLimitException it raises for a response with these headers
DefaultErrorRetryAfter(headers) ==
    LET retryAfterStr == FindHeader(headers, "Retry-After")
    IN IF retryAfterStr # <<>> /\ Stoi(retryAfterStr).ok
       THEN Stoi(retryAfterStr).value
       ELSE 60

\* the AuthException::Reason DefaultErrorFilter::onResponse raises for status
AuthReason(status) == IF status = 401 THEN "Unauthorized" ELSE "Forbidden"

\* what an exception raised by a filter carries besides its class and status
NoDetail == [retryAfter |-> 0, authReason |-> ""]

DefaultErrorDetail(status, headers) ==
    IF status = 429
    THEN [retryAfter |-> DefaultErrorRetryAfter(headers), authReason |-> ""]
    ELSE IF status = 401 \/ status = 403
    THEN [retryAfter |-> 0, authReason |-> AuthReason(status)]
    ELSE NoDetail

\* RateLimitFilter::onRequest in blocking mode: the waitTime of the
\* RateLimitException it raises at time t when the limiter is exhausted
PreflightWaitTime(lim, t) ==
    LET resetTime == IF lim.hourlyRemaining <= 0 THEN lim.hourlyReset
                     ELSE lim.dailyReset
    IN IF resetTime > t THEN (resetTime - t) \div MillisPerSecond ELSE 60

\* variant of OnRequestRaises for a RateLimit filter that never blocks
OnRequestRaisesNever(f, lim) == ""

\* filter->onRequest(request): the exception class raised, "" when the hook
\* returns normally
OnRequestRaises(f, lim) ==
    IF FilterType(f) = "RateLimitFilter" /\ ~CanMakeRequest(lim)
    THEN "RateLimitException"
    ELSE ""

\* filter->onResponse(response, httpErrorAsException): the exception class
\* raised, "" when the hook returns normally
OnResponseRaises(f, status, headers, httpErrorAsException) ==
    IF FilterType(f) = "DefaultErrorFilter"
    THEN DefaultErrorRaises(status, httpErrorAsException)
    ELSE IF FilterType(f) = "RateLimitFilter"
            /\ UpdateFromHeaders(NewLimiter(0), headers, 0).threw
    THEN "std::invalid_argument"
    ELSE ""

(***************************************************************************)
(* State.                                                                  *)
(***************************************************************************)
VARIABLES
    clientFilters,       \* FluentClient::filters_ (FilterCollection), in order
    additionalFilters,   \* Request::additionalFilters_, in insertion order
    removedFilterTypes,  \* Request::removedFilterTypes_
    retryConfig,         \* Request::retryConfig_ (NoConfig is nullptr)
    disableRetry,        \* Request::disableRetry_
    ignoreHttpErrors,    \* Request::options_.ignoreHttpErrors: "unset", "true", "false"
    cancellationToken,   \* Request::cancellationToken_: "none", "armed", "stopped"
    pc,                  \* position of the execution: "build", "loop", "sleep", "done"
    attempt,             \* loop variable of executeInternal (0 before the loop)
    maxAttempts,         \* local maxAttempts of executeInternal
    outcomes,            \* outcome of every transport call made so far, in order
    reqOrder,            \* filters whose onRequest was invoked, in order
    respOrder,           \* filters whose onResponse was invoked in the latest attempt
    respPhases,          \* number of calls of applyResponseFilters
    delays,              \* every delay slept so far, in order (milliseconds)
    result,              \* what the execution handed to its caller
    respHeaders,         \* headers of the latest response the transport returned
    raisedDetail,        \* retryAfter and reason carried by the raised exception
    limiter,             \* the six fields of the rate limiter
    now,                 \* std::chrono::system_clock::now(), in milliseconds
    siblingRemoved,      \* removedFilterTypes_ of a second Request of the Client
    siblingPc,           \* "build" until the second Request applied its filters
    siblingOrder,        \* filters whose onRequest the second Request invoked
    bridgePc,            \* per Request: position in HttpClientBridge::Impl::executeInternal
    curlConfig,          \* the Request whose URL, method, headers, body curl_ holds (0: reset)
    curlSink,            \* the Request whose buffers curl_ writes the response to (0: reset)
    sentAs,              \* per Request: the configuration its latest transfer started with
    deliveredTo,         \* per Request: the buffers its latest transfer was written to
    disturbed,           \* per Request: curl_ was touched by another thread during its transfer
    exchanges,           \* per Request: number of calls of HttpClientBridge::execute
    coordConfigs,        \* RetryCoordinator::configs_
    coordPc,             \* position in RetryCoordinator::executeAsync
    coordAttempt,        \* local attempt of executeAsync
    coordOutcomes,       \* outcome of every dispatcher call, in order
    coordDelays,         \* every delay executeAsync slept, in order (milliseconds)
    coordResult,         \* what executeAsync handed to its caller
    backoffConfig,       \* a ServerErrorRetryConfig whose getDelay is called
    backoffAttempt,      \* the attempt number of the latest getDelay call
    backoffDelay,        \* the delays getDelay returned for attempts 1, 2, ..., in order
    limiterCall,         \* the latest call made on the rate limiter and what it observed
    stateFile,           \* the file saveState writes and loadState reads
    roundTrip,           \* the limiter saveState wrote and the fresh limiter that loaded it
    body,                \* Response::body_, as characters
    cachedString,        \* Response::cachedString_ (std::optional)
    cachedJson,          \* Response::cachedJson_ (std::optional)
    cacheMutex,          \* Response::cacheMutex_: 0 when free, else the caller holding it
    callerPc,            \* per caller: "idle", or the member function it is inside
    parses,              \* number of nlohmann::json::parse calls made on the body
    conversions,         \* number of times asString built a string from the body
    jsonResults,         \* per caller: what its asJson calls handed back, in order
    stringResults,       \* per caller: what its asString calls handed back, in order
    requestCreated,      \* whether FluentClient::sendAsync has made the Request
    timeout,             \* Request::options_.timeout (std::optional, seconds)
    clientOptions,       \* FluentClient::defaultOptions_
    clientCoordinator,   \* FluentClient::coordinator_ (its configs; unset is nullptr)
    clientRetryPolicy,   \* the configs the latest setRetryPolicy call was given
    headers_,            \* Request::headers_
    defaultHeaders_,     \* FluentClient::defaultHeaders_
    defaultCustomizers_, \* FluentClient::defaultCustomizers_
    applyLog,            \* headers_ at each step of the latest applyRequestFilters
    baseUrl_,            \* FluentClient::baseUrl_, a sequence of characters
    resource_,           \* Request::resource_, a sequence of characters
    queryParams_,        \* Request::queryParams_, a sequence of <<key, value>>
    builtUrl,            \* what the latest buildFullUrl returned
    contentLength,       \* size the server announces for the download, 0 when it announces none
    dltotal,             \* the total curl reports to the progress callback
    dlnow,               \* the bytes downloaded so far
    steadyNow,           \* std::chrono::steady_clock::now(), in milliseconds
    lastUpdate,          \* ProgressContext::lastUpdate / ProgressData::last_update
    invocations,         \* the calls of the user's progress callback: time, dlnow, dltotal
    transferDone,        \* whether curl_easy_perform has returned
    filters_,            \* FilterCollection::filters_
    addedCount,          \* the filters added to the collection so far
    removedCount,        \* the entries removed from the collection so far
    lastRemove,          \* the latest remove(filter): its argument, filters_ before, what it returned
    getPc,               \* where HttpClient::get is: idle, transfer, sleep, done
    getAttempt,          \* the local attempt of HttpClient::get
    max_retries,         \* HttpClient::retry_policy_.max_retries
    transfers,           \* the curl_easy_perform calls of the get: CURLE_OK or not, status
    getResult,           \* what HttpClient::get returned or raised
    getDelays,           \* the delays HttpClient::get slept, in milliseconds
    updPc,               \* per in-flight Request: the next assignment of its updateFromHeaders call
    updHeaders,          \* per in-flight Request: the response headers it delivers
    raceStart,           \* the limiter before the first of the overlapping calls
    readerPc,            \* the position of the thread inside canMakeRequest
    observed             \* the remainders canMakeRequest has read

siblingVars == <<siblingRemoved, siblingPc, siblingOrder>>

bridgeVars == <<bridgePc, curlConfig, curlSink, sentAs, deliveredTo, disturbed,
                exchanges>>

coordVars == <<coordConfigs, coordPc, coordAttempt, coordOutcomes, coordDelays,
               coordResult>>

backoffVars == <<backoffConfig, backoffAttempt, backoffDelay>>

persistVars == <<limiterCall, stateFile, roundTrip>>

responseVars == <<body, cachedString, cachedJson, cacheMutex, callerPc, parses,
                  conversions, jsonResults, stringResults>>

clientVars == <<requestCreated, timeout, clientOptions, clientCoordinator,
                clientRetryPolicy>>

headerVars == <<headers_, defaultHeaders_, defaultCustomizers_, applyLog>>

urlVars == <<baseUrl_, resource_, queryParams_, builtUrl>>

progressVars == <<contentLength, dltotal, dlnow, steadyNow, lastUpdate,
                  invocations, transferDone>>

collectionVars == <<filters_, addedCount, removedCount, lastRemove>>

getVars == <<getPc, getAttempt, max_retries, transfers, getResult, getDelays>>

raceVars == <<updPc, updHeaders, raceStart, readerPc, observed>>

\* the variables of the subsystems modelled after the retry subsystems
laterVars == <<persistVars, responseVars, clientVars, headerVars, urlVars,
               progressVars, collectionVars, getVars, raceVars>>

\* the variables of the subsystems other than the Request and its limiter
outsideRequest == <<siblingVars, bridgeVars, coordVars, backoffVars, laterVars>>

\* the variables outside the Request that applyRequestFilters leaves alone
outsideExecute == <<siblingVars, bridgeVars, coordVars, backoffVars,
                    persistVars, responseVars, clientVars, urlVars,
                    progressVars, collectionVars, getVars, raceVars>>

limiterVars == <<limiter, now>>

vars == <<clientFilters, additionalFilters, removedFilterTypes, retryConfig,
          disableRetry, ignoreHttpErrors, cancellationToken, pc, attempt,
          maxAttempts, outcomes, reqOrder, respOrder, respPhases, delays,
          result, respHeaders, raisedDetail, limiterVars, outsideRequest>>

builderVars == <<clientFilters, additionalFilters, removedFilterTypes,
                 retryConfig, disableRetry, ignoreHttpErrors>>

execVars == <<pc, attempt, maxAttempts, outcomes, reqOrder, respOrder,
              respPhases, delays, result, respHeaders, raisedDetail>>

\* every variable of the Request, its Client and its limiter
requestVars == <<builderVars, cancellationToken, execVars, limiterVars>>

\* every variable other than those of the rate limiter, its clock and its
\* state file
outsideLimiter == <<builderVars, cancellationToken, execVars, siblingVars,
                    bridgeVars, coordVars, backoffVars, responseVars,
                    clientVars, headerVars, urlVars, progressVars,
                    collectionVars, getVars, raceVars>>

\* every variable other than those of the Response
outsideResponse == <<requestVars, siblingVars, bridgeVars, coordVars,
                     backoffVars, persistVars, clientVars, headerVars,
                     urlVars, progressVars, collectionVars, getVars,
                     raceVars>>

\* every variable other than those of the Client's defaults
outsideClient == <<requestVars, siblingVars, bridgeVars, coordVars,
                   backoffVars, persistVars, responseVars, headerVars,
                   urlVars, progressVars, collectionVars, getVars, raceVars>>

\* every variable other than those of the headers
outsideHeaders == <<requestVars, siblingVars, bridgeVars, coordVars,
                    backoffVars, persistVars, responseVars, clientVars,
                    urlVars, progressVars, collectionVars, getVars, raceVars>>

\* every variable other than those of the URL
outsideUrl == <<requestVars, siblingVars, bridgeVars, coordVars, backoffVars,
                persistVars, responseVars, clientVars, headerVars,
                progressVars, collectionVars, getVars, raceVars>>

\* every variable other than those of a download's progress
outsideProgress == <<requestVars, siblingVars, bridgeVars, coordVars,
                     backoffVars, persistVars, responseVars, clientVars,
                     headerVars, urlVars, collectionVars, getVars, raceVars>>

\* every variable other than those of a FilterCollection
outsideCollection == <<requestVars, siblingVars, bridgeVars, coordVars,
                       backoffVars, persistVars, responseVars, clientVars,
                       headerVars, urlVars, progressVars, getVars, raceVars>>

\* every variable other than those of HttpClient::get and its rate limiter
outsideGet == <<builderVars, cancellationToken, execVars, siblingVars,
                bridgeVars, coordVars, backoffVars, persistVars,
                responseVars, clientVars, headerVars, urlVars, progressVars,
                collectionVars, raceVars>>

\* every variable other than those of the overlapping limiter calls
outsideRace == <<builderVars, cancellationToken, execVars, siblingVars,
                 bridgeVars, coordVars, backoffVars, persistVars,
                 responseVars, clientVars, headerVars, urlVars, progressVars,
                 collectionVars, getVars>>

\* the clock reading at which the model starts
StartTime == 1000000

\* a second Request of the Client on which nothing has been called
IdleSibling ==
    /\ siblingRemoved = {}
    /\ siblingPc = "build"
    /\ siblingOrder = <<>>

\* the Requests of one Client that execute concurrently
Requests == {1, 2}

\* the transport of the Client, no Request executing
IdleBridge ==
    /\ bridgePc = [r \in Requests |-> "idle"]
    /\ curlConfig = 0
    /\ curlSink = 0
    /\ sentAs = [r \in Requests |-> 0]
    /\ deliveredTo = [r \in Requests |-> 0]
    /\ disturbed = [r \in Requests |-> FALSE]
    /\ exchanges = [r \in Requests |-> 0]

\* a coordinator without configs on which executeAsync was not called
IdleCoordinator ==
    /\ coordConfigs = <<>>
    /\ coordPc = "idle"
    /\ coordAttempt = 0
    /\ coordOutcomes = <<>>
    /\ coordDelays = <<>>
    /\ coordResult = NoResult

\* no getDelay call made
IdleBackoff ==
    /\ backoffConfig = NoConfig
    /\ backoffAttempt = 0
    /\ backoffDelay = <<>>

\* no call made on the rate limiter yet
\* no state file on disk
NoFile == StateFile(FALSE, FALSE, NoMembers, {})

\* a call op made on the limiter lim at time t which returned at time r,
\* with the headers or the file it was given
Call(op, lim, t, r, headers, file, threw) ==
    [op |-> op, before |-> lim, calledAt |-> t, returnedAt |-> r,
     headers |-> headers, file |-> file, threw |-> threw]

NoCall ==
    Call("none", NewLimiter(StartTime), StartTime, StartTime, NoHeaders, NoFile,
         FALSE)

\* nothing saved and nothing loaded into a fresh limiter
NoRoundTrip ==
    [saved |-> NewLimiter(StartTime), loaded |-> NewLimiter(StartTime),
     done |-> FALSE]

IdlePersist ==
    /\ limiterCall = NoCall
    /\ stateFile = NoFile
    /\ roundTrip = NoRoundTrip

\* the threads that call the member functions of one Response
Callers == {1, 2}

\* an empty std::optional<std::string> and an empty std::optional<json>
Nothing == [has |-> FALSE, value |-> <<>>]
NoJson == [has |-> FALSE, value |-> [kind |-> "null", items |-> <<>>]]

\* a Response with an empty body on which nothing has been called
IdleResponse ==
    /\ body = <<>>
    /\ cachedString = Nothing
    /\ cachedJson = NoJson
    /\ cacheMutex = 0
    /\ callerPc = [c \in Callers |-> "idle"]
    /\ parses = 0
    /\ conversions = 0
    /\ jsonResults = [c \in Callers |-> <<>>]
    /\ stringResults = [c \in Callers |-> <<>>]

\* an empty std::optional<std::chrono::seconds>
NoTimeout == [has |-> FALSE, value |-> 0]

\* RequestOptions, of which the model keeps ignoreHttpErrors and timeout
RequestOptions(ignore, seconds) == [ignoreHttpErrors |-> ignore, timeout |-> seconds]

\* a default-constructed RequestOptions
NoOptions == RequestOptions("unset", NoTimeout)

\* a coordinator_ that is nullptr
NoCoordinator == [set |-> FALSE, configs |-> <<>>]

\* a Client whose defaults were never set, and the Request it made
IdleClient ==
    /\ requestCreated = TRUE
    /\ timeout = NoTimeout
    /\ clientOptions = NoOptions
    /\ clientCoordinator = NoCoordinator
    /\ clientRetryPolicy = <<>>

\* a Request and a Client without headers or customizers
IdleHeaders ==
    /\ headers_ = NoHeaders
    /\ defaultHeaders_ = NoHeaders
    /\ defaultCustomizers_ = <<>>
    /\ applyLog = <<>>

\* no call of buildFullUrl yet
NoUrl == [built |-> FALSE, url |-> <<>>]

\* a Request without resource or query parameters whose URL was never built
IdleUrl ==
    /\ baseUrl_ = <<>>
    /\ resource_ = <<>>
    /\ queryParams_ = <<>>
    /\ builtUrl = NoUrl

\* no download
IdleProgress ==
    /\ contentLength = 0
    /\ dltotal = 0
    /\ dlnow = 0
    /\ steadyNow = 0
    /\ lastUpdate = 0
    /\ invocations = <<>>
    /\ transferDone = FALSE

\* no remove(filter) call yet
NoRemove == [called |-> FALSE, filter |-> "", before |-> <<>>, returned |-> FALSE]

\* an empty FilterCollection
IdleCollection ==
    /\ filters_ = <<>>
    /\ addedCount = 0
    /\ removedCount = 0
    /\ lastRemove = NoRemove

\* no HttpClient::get call
IdleGet ==
    /\ getPc = "idle"
    /\ getAttempt = 0
    /\ max_retries = 0
    /\ transfers = <<>>
    /\ getResult = NoResult
    /\ getDelays = <<>>

\* the in-flight Requests that share the rate limiter
Updaters == {"r1", "r2"}

\* canMakeRequest has read nothing yet; reads counts the fields it has read
NoObservation == [daily |-> 0, hourly |-> 0, reads |-> 0]

\* no updateFromHeaders call and no canMakeRequest call has begun
IdleRace ==
    /\ updPc = [u \in Updaters |-> 0]
    /\ updHeaders = [u \in Updaters |-> NoHeaders]
    /\ raceStart = NewLimiter(StartTime)
    /\ readerPc = "idle"
    /\ observed = NoObservation

\* the state of the subsystems modelled after the retry subsystems before
\* they are used
IdleLater ==
    /\ IdlePersist
    /\ IdleResponse
    /\ IdleClient
    /\ IdleHeaders
    /\ IdleUrl
    /\ IdleProgress
    /\ IdleCollection
    /\ IdleGet
    /\ IdleRace

\* the state of every subsystem other than the Request before it is used
IdleOutside ==
    IdleSibling /\ IdleBridge /\ IdleCoordinator /\ IdleBackoff /\ IdleLater

\* a Request on which nothing has been called, its Client and its limiter
IdleRequest ==
    /\ clientFilters = <<>>
    /\ additionalFilters = <<>>
    /\ removedFilterTypes = {}
    /\ retryConfig = NoConfig
    /\ disableRetry = FALSE
    /\ ignoreHttpErrors = "unset"
    /\ cancellationToken = "none"
    /\ pc = "build"
    /\ attempt = 0
    /\ maxAttempts = 0
    /\ outcomes = <<>>
    /\ reqOrder = <<>>
    /\ respOrder = <<>>
    /\ respPhases = 0
    /\ delays = <<>>
    /\ result = NoResult
    /\ respHeaders = NoHeaders
    /\ raisedDetail = NoDetail
    /\ limiter = NewLimiter(StartTime)
    /\ now = StartTime

Init ==
    /\ clientFilters = <<>>
    /\ additionalFilters = <<>>
    /\ removedFilterTypes = {}
    /\ retryConfig = NoConfig
    /\ disableRetry = FALSE
    /\ ignoreHttpErrors = "unset"
    /\ cancellationToken = "none"
    /\ pc = "build"
    /\ attempt = 0
    /\ maxAttempts = 0
    /\ outcomes = <<>>
    /\ reqOrder = <<>>
    /\ respOrder = <<>>
    /\ respPhases = 0
    /\ delays = <<>>
    /\ result = NoResult
    /\ respHeaders = NoHeaders
    /\ raisedDetail = NoDetail
    /\ limiter = NewLimiter(StartTime)
    /\ now = StartTime
    /\ IdleOutside

(***************************************************************************)
(* Derived values.                                                         *)
(***************************************************************************)
\* the filter list built at the start of applyRequestFilters and of
\* applyResponseFilters: client filters whose type was not removed, then the
\* Request's additional filters
\* variant of EffectiveFiltersOf that applies the removal to the Request's
\* own filters too
EffectiveFiltersOfAll(client, removed, additional) ==
    SelectSeq(client \o additional, LAMBDA f : FilterType(f) \notin removed)

\* the list built from the filters of the Client, the removed types and the
\* additional filters of one Request
EffectiveFiltersOf(client, removed, additional) ==
    SelectSeq(client, LAMBDA f : FilterType(f) \notin removed) \o additional

EffectiveFilters ==
    EffectiveFiltersOf(clientFilters, removedFilterTypes, additionalFilters)

\* variant of StopRequested that never observes the stop request
StopRequestedNever == FALSE

\* cancellationToken_.stop_requested()
StopRequested == cancellationToken = "stopped"

\* !options_.ignoreHttpErrors.value_or(false)
HttpErrorAsException == ignoreHttpErrors # "true"

\* retryConfig_ && !disableRetry_
RetryActive == retryConfig.kind # "none" /\ ~disableRetry

\* variant of MaxAttempts that allows one attempt more
MaxAttemptsOneMore(disabled, cfg) ==
    IF disabled THEN 1
    ELSE IF cfg.kind # "none" THEN cfg.maxRetries + 2 ELSE 1

\* variant of MaxAttempts that takes maxRetries for the number of attempts
MaxAttemptsRetriesOnly(disabled, cfg) ==
    IF disabled THEN 1
    ELSE IF cfg.kind # "none" THEN cfg.maxRetries ELSE 1

\* disableRetry_ ? 1 : (retryConfig_ ? retryConfig_->maxRetries() + 1 : 1)
MaxAttempts(disabled, cfg) ==
    IF disabled THEN 1
    ELSE IF cfg.kind # "none" THEN cfg.maxRetries + 1 ELSE 1

\* variant of AttemptsRemain that also holds at the last attempt
AttemptsRemainInclusive(n, limit) == n <= limit

\* attempt < maxAttempts: another attempt may follow this one
AttemptsRemain(n, limit) == n < limit

\* variant of IsTimeoutReason that takes every network failure for a timeout
IsTimeoutReasonAlways(reason) == TRUE

\* ex.reason() == NetworkException::Reason::Timeout
IsTimeoutReason(reason) == reason = "Timeout"

\* variant of FirstRequestRaiser under which an exception of onRequest is swallowed
FirstRequestRaiserNone(order, lim) == 0

\* position in order of the first filter whose onRequest raises, 0 if none
FirstRequestRaiser(order, lim) ==
    LET raisers == {i \in 1..Len(order) : OnRequestRaises(order[i], lim) # ""}
    IN IF raisers = {} THEN 0
       ELSE CHOOSE i \in raisers : \A j \in raisers : i <= j

\* position in order of the first filter whose onResponse raises, 0 if none
FirstRaiser(order, status, headers, asException) ==
    LET raisers == {i \in 1..Len(order) :
                      OnResponseRaises(order[i], status, headers, asException) # ""}
    IN IF raisers = {} THEN 0
       ELSE CHOOSE i \in raisers : \A j \in raisers : i <= j

\* variant of InvokedOnResponse that runs the filters for successful responses only
InvokedOnResponseSuccessOnly(order, status, headers, asException) ==
    IF IsSuccessStatusCode(status) THEN order ELSE <<>>

\* the filters applyResponseFilters invokes when it walks order: all of them,
\* or those up to and including the first one that raises
InvokedOnResponse(order, status, headers, asException) ==
    LET k == FirstRaiser(order, status, headers, asException)
    IN IF k = 0 THEN order ELSE SubSeq(order, 1, k)

(***************************************************************************)
(* Builder calls (before execution).                                       *)
(***************************************************************************)
\* FilterCollection::add on the Client: push_back, then sortByPriority
ClientAddFilter(f) ==
    /\ pc = "build"
    /\ siblingPc = "build"
    /\ f \notin Range(clientFilters)
    /\ Len(clientFilters) + Len(additionalFilters) < MaxFilters
    /\ clientFilters' \in SortAscending(Append(clientFilters, f))
    /\ UNCHANGED <<additionalFilters, removedFilterTypes, retryConfig,
                   disableRetry, ignoreHttpErrors, cancellationToken, execVars,
                   limiterVars, outsideRequest>>

\* Request::withFilter
WithFilter(f) ==
    /\ pc = "build"
    /\ f \notin Range(additionalFilters)
    /\ Len(clientFilters) + Len(additionalFilters) < MaxFilters
    /\ additionalFilters' = Append(additionalFilters, f)
    /\ UNCHANGED <<clientFilters, removedFilterTypes, retryConfig,
                   disableRetry, ignoreHttpErrors, cancellationToken, execVars,
                   limiterVars, outsideRequest>>

\* Request::withoutFilter(const FilterPtr&): erase the first occurrence
WithoutFilter(f) ==
    /\ pc = "build"
    /\ f \in Range(additionalFilters)
    /\ additionalFilters' = SelectSeq(additionalFilters, LAMBDA g : g # f)
    /\ UNCHANGED <<clientFilters, removedFilterTypes, retryConfig,
                   disableRetry, ignoreHttpErrors, cancellationToken, execVars,
                   limiterVars, outsideRequest>>

\* Request::removeFiltersOfType (IRequest::withoutFilter<T>)
RemoveFiltersOfType(t) ==
    /\ pc = "build"
    /\ Cardinality(removedFilterTypes \cup {t}) <= MaxRemoved
    /\ removedFilterTypes' = removedFilterTypes \cup {t}
    /\ UNCHANGED <<clientFilters, additionalFilters, retryConfig,
                   disableRetry, ignoreHttpErrors, cancellationToken, execVars,
                   limiterVars, outsideRequest>>

\* Request::withRetryConfig
WithRetryConfig(cfg) ==
    /\ pc = "build"
    /\ retryConfig' = cfg
    /\ disableRetry' = FALSE
    /\ UNCHANGED <<clientFilters, additionalFilters, removedFilterTypes,
                   ignoreHttpErrors, cancellationToken, execVars,
                   limiterVars, outsideRequest>>

\* Request::withNoRetry
WithNoRetry ==
    /\ pc = "build"
    /\ disableRetry' = TRUE
    /\ retryConfig' = NoConfig
    /\ UNCHANGED <<clientFilters, additionalFilters, removedFilterTypes,
                   ignoreHttpErrors, cancellationToken, execVars,
                   limiterVars, outsideRequest>>

\* Request::withIgnoreHttpErrors
WithIgnoreHttpErrors(ignore) ==
    /\ pc = "build"
    /\ ignoreHttpErrors' = IF ignore THEN "true" ELSE "false"
    /\ UNCHANGED <<clientFilters, additionalFilters, removedFilterTypes,
                   retryConfig, disableRetry, cancellationToken, execVars,
                   limiterVars, outsideRequest>>

\* Request::withCancellation, with the token of a stop_source that has
\* (stopped) or has not (armed) been asked to stop
WithCancellation(token) ==
    /\ pc = "build"
    /\ cancellationToken' = token
    /\ UNCHANGED <<builderVars, execVars, limiterVars, outsideRequest>>

\* std::stop_source::request_stop by the owner of the token, at any time
RequestStop ==
    /\ pc # "done"
    /\ cancellationToken = "armed"
    /\ cancellationToken' = "stopped"
    /\ UNCHANGED <<builderVars, execVars, limiterVars, outsideRequest>>

(***************************************************************************)
(* Execution: Request::executeInternal.                                    *)
(***************************************************************************)
\* one entry of applyLog: the step taken, what took it, headers_ after it
ApplyStep(step, by, headers) == [step |-> step, by |-> by, headers |-> headers]

\* Request::withHeader as a function of the map: headers_[key] = value
SetHeader(headers, key, value) ==
    [k \in DOMAIN headers \cup {key} |->
        IF k = key THEN value ELSE headers[k]]

\* the first loop of applyRequestFilters: a default header is added when
\* headers_.find(key), an exact comparison of the keys, finds nothing
MergeDefaultHeaders(headers, defaults) ==
    [k \in DOMAIN headers \cup DOMAIN defaults |->
        IF k \in DOMAIN headers THEN headers[k] ELSE defaults[k]]

\* headers_ after the first n default customizers ran on the Request, each
\* customizer calling withHeader(key, value)
RECURSIVE AfterCustomizers(_, _, _)
AfterCustomizers(headers, customizers, n) ==
    IF n = 0 THEN headers
    ELSE SetHeader(AfterCustomizers(headers, customizers, n - 1),
                   customizers[n].key, customizers[n].value)

\* the steps of applyRequestFilters on a Request whose sorted filters are
\* order and of which the first called have their onRequest run
ApplyRequestFiltersLog(headers, defaults, customizers, order, called) ==
    LET merged == MergeDefaultHeaders(headers, defaults)
        final == AfterCustomizers(merged, customizers, Len(customizers))
    IN <<ApplyStep("enter", "", headers), ApplyStep("merge", "", merged)>>
       \o [i \in 1..Len(customizers) |->
              ApplyStep("customizer", customizers[i].key,
                        AfterCustomizers(merged, customizers, i))]
       \o [i \in 1..called |-> ApplyStep("onRequest", order[i], final)]

\* applyRequestFilters (merge of the default headers, default customizers,
\* sort ascending, onRequest on each filter until one raises), then the
\* computation of maxAttempts and the entry into the attempt loop; an
\* exception raised by onRequest leaves executeInternal
Execute ==
    /\ pc = "build"
    /\ \E order \in SortAscending(EffectiveFilters) :
         LET k == FirstRequestRaiser(order, limiter)
             called == IF k = 0 THEN Len(order) ELSE k
             log == ApplyRequestFiltersLog(headers_, defaultHeaders_,
                                           defaultCustomizers_, order, called)
         IN /\ applyLog' = log
            /\ headers_' = log[Len(log)].headers
            /\ UNCHANGED <<defaultHeaders_, defaultCustomizers_>>
            /\ IF k = 0
               THEN /\ reqOrder' = order
                    /\ maxAttempts' = MaxAttempts(disableRetry, retryConfig)
                    /\ attempt' = 1
                    /\ pc' = "loop"
                    /\ UNCHANGED <<result, raisedDetail>>
               ELSE /\ reqOrder' = SubSeq(order, 1, k)
                    /\ result' = RaisedError(OnRequestRaises(order[k], limiter),
                                             429, "Rate limit exhausted", 0)
                    /\ raisedDetail' =
                          [retryAfter |-> PreflightWaitTime(limiter, now),
                           authReason |-> ""]
                    /\ pc' = "done"
                    /\ UNCHANGED <<maxAttempts, attempt>>
    /\ UNCHANGED <<builderVars, cancellationToken, outcomes, respOrder,
                   respPhases, delays, respHeaders, limiterVars, outsideExecute>>

\* the loop condition attempt <= maxAttempts fails: the statement after the loop
LoopExhausted ==
    /\ pc = "loop"
    /\ attempt > maxAttempts
    /\ result' = RaisedError("std::runtime_error", 0,
                             "Request failed after retries", attempt)
    /\ pc' = "done"
    /\ UNCHANGED <<builderVars, cancellationToken, attempt, maxAttempts,
                   outcomes, reqOrder, respOrder, respPhases, delays,
                   respHeaders, raisedDetail, limiterVars, outsideRequest>>

\* the cancellation check at the top of an attempt finds stop requested
CancellationCheck ==
    /\ pc = "loop"
    /\ attempt <= maxAttempts
    /\ StopRequested
    /\ result' = RaisedError("std::runtime_error", 0, "Request cancelled", attempt)
    /\ pc' = "done"
    /\ UNCHANGED <<builderVars, cancellationToken, attempt, maxAttempts,
                   outcomes, reqOrder, respOrder, respPhases, delays,
                   respHeaders, raisedDetail, limiterVars, outsideRequest>>

\* an attempt whose transport call returns a response with the given status
\* and headers: response filters (sort descending, onResponse on each until
\* one raises), retry decision
AttemptResponse(status, headers) ==
    /\ pc = "loop"
    /\ attempt <= maxAttempts
    /\ ~StopRequested
    /\ outcomes' = Append(outcomes, ResponseOutcome(status))
    /\ respHeaders' = headers
    /\ respPhases' = respPhases + 1
    /\ \E order \in SortDescending(EffectiveFilters) :
         LET k == FirstRaiser(order, status, headers, HttpErrorAsException)
             invoked == InvokedOnResponse(order, status, headers,
                                          HttpErrorAsException)
         IN /\ respOrder' = invoked
            \* RateLimitFilter::onResponse: rateLimiter_->updateFromHeaders
            /\ limiter' =
                  IF \E i \in 1..Len(invoked) :
                        FilterType(invoked[i]) = "RateLimitFilter"
                  THEN UpdateFromHeaders(limiter, headers, now).limiter
                  ELSE limiter
            /\ IF k # 0
               THEN \* the exception is not a NetworkException: it leaves the loop
                    /\ result' = RaisedError(
                          OnResponseRaises(order[k], status, headers,
                                           HttpErrorAsException),
                          status, "", attempt)
                    /\ raisedDetail' =
                          IF FilterType(order[k]) = "DefaultErrorFilter"
                          THEN DefaultErrorDetail(status, headers)
                          ELSE NoDetail
                    /\ pc' = "done"
                    /\ UNCHANGED delays
               ELSE IF /\ RetryActive
                       /\ ShouldRetry(retryConfig, status, FALSE)
                       /\ AttemptsRemain(attempt, maxAttempts)
               THEN /\ delays' = Append(delays, GetDelay(retryConfig, attempt, status))
                    /\ pc' = "sleep"
                    /\ UNCHANGED <<result, raisedDetail>>
               ELSE /\ result' = ReturnedResponse(status, attempt)
                    /\ pc' = "done"
                    /\ UNCHANGED <<delays, raisedDetail>>
    /\ UNCHANGED <<builderVars, cancellationToken, attempt, maxAttempts,
                   reqOrder, now, outsideRequest>>

\* an attempt whose transport call raises NetworkException with the given reason
AttemptNetworkError(reason) ==
    /\ pc = "loop"
    /\ attempt <= maxAttempts
    /\ ~StopRequested
    /\ outcomes' = Append(outcomes, NetworkOutcome(reason))
    /\ respOrder' = <<>>
    /\ LET isTimeout == IsTimeoutReason(reason)
       IN IF /\ RetryActive
             /\ ShouldRetry(retryConfig, 0, isTimeout)
             /\ AttemptsRemain(attempt, maxAttempts)
          THEN /\ delays' = Append(delays, GetDelay(retryConfig, attempt, 0))
               /\ pc' = "sleep"
               /\ UNCHANGED result
          ELSE /\ result' = RaisedError("NetworkException", 0, reason, attempt)
               /\ pc' = "done"
               /\ UNCHANGED delays
    /\ UNCHANGED <<builderVars, cancellationToken, attempt, maxAttempts,
                   reqOrder, respPhases, respHeaders, raisedDetail,
                   limiterVars, outsideRequest>>

\* variant of SleepReturns in which the retry runs the request phase again
SleepReturnsReapplying ==
    /\ pc = "sleep"
    /\ attempt' = attempt + 1
    /\ pc' = "loop"
    /\ applyLog' = applyLog \o ApplyRequestFiltersLog(headers_, defaultHeaders_,
                                  defaultCustomizers_, reqOrder, Len(reqOrder))
    /\ UNCHANGED <<headers_, defaultHeaders_, defaultCustomizers_>>
    /\ UNCHANGED <<builderVars, cancellationToken, maxAttempts, outcomes,
                   reqOrder, respOrder, respPhases, delays, result,
                   respHeaders, raisedDetail, limiterVars, outsideExecute>>

\* std::this_thread::sleep_for(delay) returns; continue: ++attempt
SleepReturns ==
    /\ pc = "sleep"
    /\ attempt' = attempt + 1
    /\ pc' = "loop"
    /\ UNCHANGED <<builderVars, cancellationToken, maxAttempts, outcomes,
                   reqOrder, respOrder, respPhases, delays, result,
                   respHeaders, raisedDetail, limiterVars, outsideRequest>>

Next ==
    \/ \E f \in ClientFilterPool : ClientAddFilter(f)
    \/ \E f \in RequestFilterPool : WithFilter(f)
    \/ \E f \in RequestFilterPool : WithoutFilter(f)
    \/ \E t \in RemovableTypes : RemoveFiltersOfType(t)
    \/ \E cfg \in RetryConfigs \cup {NoConfig} : WithRetryConfig(cfg)
    \/ WithNoRetry
    \/ \E b \in BOOLEAN : WithIgnoreHttpErrors(b)
    \/ \E token \in {"armed", "stopped"} : WithCancellation(token)
    \/ RequestStop
    \/ Execute
    \/ LoopExhausted
    \/ CancellationCheck
    \/ \E status \in Statuses : AttemptResponse(status, NoHeaders)
    \/ \E reason \in NetworkReasons : AttemptNetworkError(reason)
    \/ SleepReturns

Spec == Init /\ [][Next]_vars

\* the execution runs on its own thread (std::async): started, it keeps
\* taking steps as long as transport calls and sleeps return
Progress ==
    /\ WF_vars(LoopExhausted)
    /\ WF_vars(CancellationCheck)
    /\ WF_vars(\E status \in Statuses : AttemptResponse(status, NoHeaders))
    /\ WF_vars(\E reason \in NetworkReasons : AttemptNetworkError(reason))
    /\ WF_vars(SleepReturns)

(***************************************************************************)
(* The attempt loop on its own: a Request already built, in one of a       *)
(* bounded set of builder states, is executed.                             *)
(***************************************************************************)
LoopInit ==
    /\ clientFilters \in {<<>>, <<"mockA">>, <<"err">>, <<"mockA", "err">>}
    /\ additionalFilters \in {<<>>, <<"mockB">>}
    /\ removedFilterTypes = {}
    /\ \/ retryConfig \in RetryConfigs \cup {NoConfig} /\ disableRetry = FALSE
       \/ retryConfig = NoConfig /\ disableRetry = TRUE
    /\ ignoreHttpErrors \in {"unset", "true", "false"}
    /\ cancellationToken \in {"none", "armed", "stopped"}
    /\ pc = "build"
    /\ attempt = 0
    /\ maxAttempts = 0
    /\ outcomes = <<>>
    /\ reqOrder = <<>>
    /\ respOrder = <<>>
    /\ respPhases = 0
    /\ delays = <<>>
    /\ result = NoResult
    /\ respHeaders = NoHeaders
    /\ raisedDetail = NoDetail
    /\ limiter = NewLimiter(StartTime)
    /\ now = StartTime
    /\ IdleOutside

LoopNext ==
    \/ RequestStop
    \/ Execute
    \/ LoopExhausted
    \/ CancellationCheck
    \/ \E status \in Statuses : AttemptResponse(status, NoHeaders)
    \/ \E reason \in NetworkReasons : AttemptNetworkError(reason)
    \/ SleepReturns

LoopSpec == LoopInit /\ [][LoopNext]_vars /\ Progress

(***************************************************************************)
(* The pipeline of a NexusMods-style Client: RateLimit, Logging and        *)
(* DefaultError filters on the Client, a limiter that has or has not       *)
(* capacity left, and responses that carry headers.                        *)
(***************************************************************************)
\* the filter lists FilterCollection::add leaves on the Client
PipelineClientFilters ==
    {<<"log", "rl", "err">>, <<"rl", "err">>, <<"log", "err">>,
     <<"log", "rl">>, <<"err">>}

\* limiter states at the start of an execution: fresh, hourly window
\* exhausted, daily window exhausted, both exhausted
PipelineLimiters ==
    {NewLimiter(StartTime),
     [NewLimiter(StartTime) EXCEPT !.hourlyRemaining = 0],
     [NewLimiter(StartTime) EXCEPT !.dailyRemaining = 0],
     [NewLimiter(StartTime) EXCEPT !.dailyRemaining = 0, !.hourlyRemaining = 0]}

\* the header maps of the responses the server sends
PipelineHeaders ==
    {NoHeaders,
     "Retry-After" :> <<"2">>,
     "retry-after" :> <<"7">>,
     "Retry-After" :> <<"s", "o", "o", "n">>,
     ("x-rl-daily-remaining" :> <<"5">>) @@ ("x-rl-hourly-remaining" :> <<"0">>),
     ("X-RL-Daily-Remaining" :> <<"9">>) @@ ("X-RL-Hourly-Remaining" :> <<"3">>)}

\* status codes the server answers with
PipelineStatuses == Statuses \cup {403}

PipelineRetryConfigs ==
    {NoConfig, RateLimitRetryConfig(1), ServerErrorRetryConfig(1, 10, 25),
     ServerErrorRetryConfig(-1, 10, 25)}

PipelineInit ==
    /\ clientFilters \in PipelineClientFilters
    /\ additionalFilters \in {<<>>, <<"mockB">>}
    /\ removedFilterTypes = {}
    /\ retryConfig \in PipelineRetryConfigs
    /\ disableRetry = FALSE
    /\ ignoreHttpErrors \in {"unset", "true", "false"}
    /\ cancellationToken \in {"none", "armed"}
    /\ pc = "build"
    /\ attempt = 0
    /\ maxAttempts = 0
    /\ outcomes = <<>>
    /\ reqOrder = <<>>
    /\ respOrder = <<>>
    /\ respPhases = 0
    /\ delays = <<>>
    /\ result = NoResult
    /\ respHeaders = NoHeaders
    /\ raisedDetail = NoDetail
    /\ limiter \in PipelineLimiters
    /\ now = StartTime
    /\ IdleOutside

PipelineNext ==
    \/ RequestStop
    \/ Execute
    \/ LoopExhausted
    \/ CancellationCheck
    \/ \E status \in PipelineStatuses, headers \in PipelineHeaders :
          AttemptResponse(status, headers)
    \/ \E reason \in NetworkReasons : AttemptNetworkError(reason)
    \/ SleepReturns

PipelineSpec == PipelineInit /\ [][PipelineNext]_vars

(***************************************************************************)
(* Two Requests of one Client: the Request of the model and a second one   *)
(* that removes filter types of its own and applies its request filters.   *)
(***************************************************************************)
\* Request::removeFiltersOfType on the second Request
SiblingRemoveFiltersOfType(t) ==
    /\ siblingPc = "build"
    /\ Cardinality(siblingRemoved \cup {t}) <= MaxRemoved
    /\ siblingRemoved' = siblingRemoved \cup {t}
    /\ UNCHANGED <<siblingPc, siblingOrder>>
    /\ UNCHANGED <<requestVars, bridgeVars, coordVars, backoffVars, laterVars>>

\* Request::applyRequestFilters of the second Request, which has no filters
\* of its own
SiblingApplyRequestFilters ==
    /\ siblingPc = "build"
    /\ \E order \in SortAscending(EffectiveFiltersOf(clientFilters,
                                                     siblingRemoved, <<>>)) :
         LET k == FirstRequestRaiser(order, limiter)
         IN siblingOrder' = IF k = 0 THEN order ELSE SubSeq(order, 1, k)
    /\ siblingPc' = "done"
    /\ UNCHANGED siblingRemoved
    /\ UNCHANGED <<requestVars, bridgeVars, coordVars, backoffVars, laterVars>>

TwoRequestsNext ==
    \/ \E f \in ClientFilterPool : ClientAddFilter(f)
    \/ \E f \in RequestFilterPool : WithFilter(f)
    \/ \E t \in RemovableTypes : RemoveFiltersOfType(t)
    \/ \E t \in RemovableTypes : SiblingRemoveFiltersOfType(t)
    \/ SiblingApplyRequestFilters
    \/ Execute
    \/ \E status \in Statuses : AttemptResponse(status, NoHeaders)

TwoRequestsSpec == Init /\ [][TwoRequestsNext]_vars

(***************************************************************************)
(* The transport: HttpClientBridge::Impl::executeInternal, called by the   *)
(* Requests of one Client, each on the thread of its own std::async.  The  *)
(* Client has one bridge and the bridge one CURL handle, curl_; there is   *)
(* no lock.  A step is one libcurl call.                                   *)
(***************************************************************************)
\* the other Requests have a transfer running on curl_
OthersPerforming(r) == {q \in Requests \ {r} : bridgePc[q] = "perform"}

\* a libcurl call of Request r on curl_ while transfers of other Requests run
\* on it: those transfers use a handle that changes under them
Disturb(r) == [q \in Requests |-> disturbed[q] \/ q \in OthersPerforming(r)]

\* Request::executeInternal calls client_->httpClientBridge().execute(config);
\* executeInternal begins with curl_easy_reset(curl_)
CurlEasyReset(r) ==
    /\ bridgePc[r] = "idle"
    /\ exchanges[r] < MaxExchanges
    /\ exchanges' = [exchanges EXCEPT ![r] = @ + 1]
    /\ bridgePc' = [bridgePc EXCEPT ![r] = "reset"]
    /\ curlConfig' = 0
    /\ curlSink' = 0
    /\ disturbed' = [Disturb(r) EXCEPT ![r] = FALSE]
    /\ sentAs' = [sentAs EXCEPT ![r] = 0]
    /\ deliveredTo' = [deliveredTo EXCEPT ![r] = 0]
    /\ UNCHANGED <<requestVars, siblingVars, coordVars, backoffVars, laterVars>>

\* the curl_easy_setopt calls: URL, method, headers, body of config, then
\* WRITEDATA and HEADERDATA pointing at the locals of this call
CurlEasySetopt(r) ==
    /\ bridgePc[r] = "reset"
    /\ bridgePc' = [bridgePc EXCEPT ![r] = "set"]
    /\ curlConfig' = r
    /\ curlSink' = r
    /\ disturbed' = Disturb(r)
    /\ UNCHANGED <<sentAs, deliveredTo, exchanges>>
    /\ UNCHANGED <<requestVars, siblingVars, coordVars, backoffVars, laterVars>>

\* curl_easy_perform(curl_) starts the transfer with what the handle holds
CurlEasyPerformBegin(r) ==
    /\ bridgePc[r] = "set"
    /\ bridgePc' = [bridgePc EXCEPT ![r] = "perform"]
    /\ sentAs' = [sentAs EXCEPT ![r] = curlConfig]
    /\ disturbed' = [q \in Requests |->
                        disturbed[q] \/ OthersPerforming(r) # {}]
    /\ UNCHANGED <<curlConfig, curlSink, deliveredTo, exchanges>>
    /\ UNCHANGED <<requestVars, siblingVars, coordVars, backoffVars, laterVars>>

\* curl_easy_perform returns: the response went through the write and header
\* callbacks to the buffers the handle points at; executeInternal returns
CurlEasyPerformEnd(r) ==
    /\ bridgePc[r] = "perform"
    /\ bridgePc' = [bridgePc EXCEPT ![r] = "idle"]
    /\ deliveredTo' = [deliveredTo EXCEPT ![r] = curlSink]
    /\ UNCHANGED <<curlConfig, curlSink, sentAs, disturbed, exchanges>>
    /\ UNCHANGED <<requestVars, siblingVars, coordVars, backoffVars, laterVars>>

BridgeInit == IdleRequest /\ IdleOutside

BridgeNext ==
    \/ \E r \in Requests : CurlEasyReset(r)
    \/ \E r \in Requests : CurlEasySetopt(r)
    \/ \E r \in Requests : CurlEasyPerformBegin(r)
    \/ \E r \in Requests : CurlEasyPerformEnd(r)

BridgeSpec == BridgeInit /\ [][BridgeNext]_vars

(***************************************************************************)
(* The retry coordinator (RetryCoordinator): a vector of retry configs and *)
(* the loop of executeAsync around a dispatcher.                           *)
(***************************************************************************)
MaxOf(S) == CHOOSE x \in S : \A y \in S : y <= x

\* the configs a caller hands to the coordinator
CoordinatorConfigPool ==
    {ServerErrorRetryConfig(2, 10, 25), ServerErrorRetryConfig(1, 70000, 90000),
     RateLimitRetryConfig(1), TimeoutRetryConfig(2, 500)}

\* variant of CoordinatorShouldRetry that asks every config to agree
CoordinatorShouldRetryAll(configs, statusCode, isTimeout) ==
    \A i \in 1..Len(configs) : ShouldRetry(configs[i], statusCode, isTimeout)

\* RetryCoordinator::shouldRetry: true if any config says to retry
CoordinatorShouldRetry(configs, statusCode, isTimeout) ==
    \E i \in 1..Len(configs) : ShouldRetry(configs[i], statusCode, isTimeout)

\* RetryCoordinator::getDelay: the largest getDelay(attempt, statusCode) of the
\* configs for which shouldRetry(statusCode, false) || shouldRetry(0, true)
CoordinatorGetDelay(configs, n, statusCode) ==
    MaxOf({0} \cup
          {GetDelay(configs[i], n, statusCode) :
              i \in {j \in 1..Len(configs) :
                        \/ ShouldRetry(configs[j], statusCode, FALSE)
                        \/ ShouldRetry(configs[j], 0, TRUE)}})

\* RetryCoordinator::getMaxRetries
CoordinatorGetMaxRetries(configs) ==
    MaxOf({0} \cup {configs[i].maxRetries : i \in 1..Len(configs)})

\* RetryCoordinator::addConfig
CoordinatorAddConfig(cfg) ==
    /\ coordPc = "idle"
    /\ Len(coordConfigs) < MaxConfigs
    /\ coordConfigs' = Append(coordConfigs, cfg)
    /\ UNCHANGED <<coordPc, coordAttempt, coordOutcomes, coordDelays, coordResult>>
    /\ UNCHANGED <<requestVars, siblingVars, bridgeVars, backoffVars, laterVars>>

\* RetryCoordinator::clearConfigs
CoordinatorClearConfigs ==
    /\ coordPc = "idle"
    /\ coordConfigs # <<>>
    /\ coordConfigs' = <<>>
    /\ UNCHANGED <<coordPc, coordAttempt, coordOutcomes, coordDelays, coordResult>>
    /\ UNCHANGED <<requestVars, siblingVars, bridgeVars, backoffVars, laterVars>>

\* RetryCoordinator::executeAsync is called: attempt = 0, the loop is entered
CoordinatorExecuteAsync ==
    /\ coordPc = "idle"
    /\ coordAttempt' = 0
    /\ coordPc' = "dispatch"
    /\ UNCHANGED <<coordConfigs, coordOutcomes, coordDelays, coordResult>>
    /\ UNCHANGED <<requestVars, siblingVars, bridgeVars, backoffVars, laterVars>>

\* one iteration whose dispatcher call yields a response with this status
CoordinatorDispatchResponse(statusCode) ==
    /\ coordPc = "dispatch"
    /\ coordAttempt' = coordAttempt + 1
    /\ coordOutcomes' = Append(coordOutcomes, ResponseOutcome(statusCode))
    /\ IF /\ CoordinatorShouldRetry(coordConfigs, statusCode, FALSE)
          /\ coordAttempt' <= CoordinatorGetMaxRetries(coordConfigs)
       THEN /\ coordDelays' = Append(coordDelays,
                 CoordinatorGetDelay(coordConfigs, coordAttempt', statusCode))
            /\ coordPc' = "sleep"
            /\ UNCHANGED coordResult
       ELSE /\ coordResult' = ReturnedResponse(statusCode, coordAttempt')
            /\ coordPc' = "done"
            /\ UNCHANGED coordDelays
    /\ UNCHANGED coordConfigs
    /\ UNCHANGED <<requestVars, siblingVars, bridgeVars, backoffVars, laterVars>>

\* one iteration whose dispatcher call raises NetworkException
CoordinatorDispatchNetworkError(reason) ==
    /\ coordPc = "dispatch"
    /\ coordAttempt' = coordAttempt + 1
    /\ coordOutcomes' = Append(coordOutcomes, NetworkOutcome(reason))
    /\ IF /\ CoordinatorShouldRetry(coordConfigs, 0, IsTimeoutReason(reason))
          /\ coordAttempt' <= CoordinatorGetMaxRetries(coordConfigs)
       THEN /\ coordDelays' = Append(coordDelays,
                 CoordinatorGetDelay(coordConfigs, coordAttempt', 0))
            /\ coordPc' = "sleep"
            /\ UNCHANGED coordResult
       ELSE /\ coordResult' = RaisedError("NetworkException", 0, reason,
                                          coordAttempt')
            /\ coordPc' = "done"
            /\ UNCHANGED coordDelays
    /\ UNCHANGED coordConfigs
    /\ UNCHANGED <<requestVars, siblingVars, bridgeVars, backoffVars, laterVars>>

\* std::this_thread::sleep_for(delay) returns; continue
CoordinatorSleepReturns ==
    /\ coordPc = "sleep"
    /\ coordPc' = "dispatch"
    /\ UNCHANGED <<coordConfigs, coordAttempt, coordOutcomes, coordDelays,
                   coordResult>>
    /\ UNCHANGED <<requestVars, siblingVars, bridgeVars, backoffVars, laterVars>>

CoordinatorInit == IdleRequest /\ IdleOutside

CoordinatorNext ==
    \/ \E cfg \in CoordinatorConfigPool : CoordinatorAddConfig(cfg)
    \/ CoordinatorClearConfigs
    \/ CoordinatorExecuteAsync
    \/ \E statusCode \in Statuses : CoordinatorDispatchResponse(statusCode)
    \/ \E reason \in NetworkReasons : CoordinatorDispatchNetworkError(reason)
    \/ CoordinatorSleepReturns

CoordinatorSpec == CoordinatorInit /\ [][CoordinatorNext]_vars

(***************************************************************************)
(* ServerErrorRetryConfig::getDelay on its own: a config is constructed    *)
(* and getDelay is called for attempt 1, 2, 3, ...                         *)
(***************************************************************************)
\* the results 1 << n can have on a 32-bit int: defined for 0..31; a shift
\* count of 32 or more is undefined behaviour, where the hardware either uses
\* the count modulo 32 or shifts the bit out
ShiftOutcomes(n) ==
    IF n <= 31 THEN {ShiftOne(n)} ELSE {ShiftOne(n % 32), 0}

\* ServerErrorRetryConfig::getDelay for each result the shift can have
ServerErrorGetDelayOutcomes(cfg, n) ==
    {Min(cfg.initialDelay * shift, cfg.maxDelay) : shift \in ShiftOutcomes(n - 1)}

\* the configs getDelay is called on: initialDelay 1ms or 0ms, and maxDelay
\* 16ms, 1000ms or 2^30 ms
BackoffConfigs ==
    {ServerErrorRetryConfig(MaxBackoffAttempt, 1, 16),
     ServerErrorRetryConfig(MaxBackoffAttempt, 1, 1000),
     ServerErrorRetryConfig(MaxBackoffAttempt, 1, 1073741824),
     ServerErrorRetryConfig(MaxBackoffAttempt, 0, 16)}

BackoffInit ==
    /\ IdleRequest
    /\ IdleSibling
    /\ IdleBridge
    /\ IdleCoordinator
    /\ IdleLater
    /\ backoffConfig \in BackoffConfigs
    /\ backoffAttempt = 0
    /\ backoffDelay = <<>>

\* getDelay(attempt, statusCode) for the next attempt number
BackoffGetDelay ==
    /\ backoffAttempt < MaxBackoffAttempt
    /\ backoffAttempt' = backoffAttempt + 1
    /\ \E delay \in ServerErrorGetDelayOutcomes(backoffConfig, backoffAttempt') :
          backoffDelay' = Append(backoffDelay, delay)
    /\ UNCHANGED backoffConfig
    /\ UNCHANGED <<requestVars, siblingVars, bridgeVars, coordVars, laterVars>>

BackoffNext == BackoffGetDelay

BackoffSpec == BackoffInit /\ [][BackoffNext]_vars

(***************************************************************************)
(* The RateLimiter on its own: updateFromHeaders, loadState and            *)
(* waitIfNeeded called in any order while the clock advances.              *)
(***************************************************************************)
\* the header maps updateFromHeaders is called with
LimiterHeaders ==
    {NoHeaders,
     ("x-rl-daily-remaining" :> <<"5">>) @@ ("x-rl-hourly-remaining" :> <<"0">>)
         @@ ("x-rl-hourly-reset" :> <<"4", "6", "0", "0">>),
     ("x-rl-daily-remaining" :> <<"0">>)
         @@ ("x-rl-daily-reset" :> <<"1", "0", "0", "5">>),
     ("X-RL-Daily-Remaining" :> <<"3">>) @@ ("X-RL-Hourly-Remaining" :> <<"1", "0">>),
     "x-rl-hourly-remaining" :> <<"-", "1">>,
     "x-rl-daily-remaining" :> <<"0">>,
     "x-rl-hourly-reset" :> <<"s", "o", "o", "n">>,
     ("x-rl-daily-remaining" :> <<"a", "b", "c">>)
         @@ ("x-rl-hourly-remaining" :> <<"7">>)}

\* the state files loadState is called on
LimiterFiles ==
    {StateFile(FALSE, FALSE, NoMembers, {}),
     StateFile(TRUE, FALSE, NoMembers, {}),
     StateFile(TRUE, TRUE, NoMembers, {}),
     StateFile(TRUE, TRUE,
               ("daily_remaining" :> 0) @@ ("daily_reset" :> 1005), {}),
     StateFile(TRUE, TRUE, "hourly_remaining" :> 0, {}),
     StateFile(TRUE, TRUE, "daily_remaining" :> 4, {"hourly_remaining"})}

LimiterInit == IdleRequest /\ IdleOutside

\* RateLimiter::updateFromHeaders; when std::stoi throws, the assignments
\* made before it stay
LimiterUpdateFromHeaders(headers) ==
    /\ limiter' = UpdateFromHeaders(limiter, headers, now).limiter
    /\ limiterCall' = Call("updateFromHeaders", limiter, now, now, headers, NoFile,
                           UpdateFromHeaders(limiter, headers, now).threw)
    /\ UNCHANGED <<now, stateFile, roundTrip>>
    /\ UNCHANGED outsideLimiter

\* RateLimiter::loadState; every exception is caught inside
LimiterLoadState(file) ==
    /\ limiter' = LoadState(limiter, file)
    /\ limiterCall' = Call("loadState", limiter, now, now, NoHeaders, file, FALSE)
    /\ UNCHANGED <<now, stateFile, roundTrip>>
    /\ UNCHANGED outsideLimiter

\* the times at which std::this_thread::sleep_until(t) can return
SleepUntilReturns(t) == {t, t + ClockStep}

\* the times at which waitIfNeeded can return when it is called at time t:
\* t when canMakeRequest() holds or the reset time has passed, otherwise a
\* time sleep_until returns at
WaitIfNeededReturns(lim, t) ==
    IF CanMakeRequest(lim) \/ WaitUntil(lim) - t <= 0
    THEN {t}
    ELSE SleepUntilReturns(WaitUntil(lim))

\* waitIfNeeded if it refilled both windows once the reset time is reached
LimiterWaitIfNeededRefilling ==
    /\ \E r \in WaitIfNeededReturns(limiter, now) :
          /\ now' = r
          /\ limiterCall' = Call("waitIfNeeded", limiter, now, r, NoHeaders,
                                 NoFile, FALSE)
    /\ limiter' = IF CanMakeRequest(limiter) THEN limiter
                  ELSE [limiter EXCEPT !.dailyRemaining = limiter.dailyLimit,
                                       !.hourlyRemaining = limiter.hourlyLimit]
    /\ UNCHANGED <<stateFile, roundTrip>>
    /\ UNCHANGED outsideLimiter

\* RateLimiter::waitIfNeeded
LimiterWaitIfNeeded ==
    /\ \E r \in WaitIfNeededReturns(limiter, now) :
          /\ now' = r
          /\ limiterCall' = Call("waitIfNeeded", limiter, now, r, NoHeaders,
                                 NoFile, FALSE)
    /\ UNCHANGED <<limiter, stateFile, roundTrip>>
    /\ UNCHANGED outsideLimiter

\* time passes between two calls
LimiterClockAdvances ==
    /\ now < StartTime + MaxClock * MillisPerSecond
    /\ now' = now + ClockStep
    /\ UNCHANGED <<limiter, limiterCall, stateFile, roundTrip>>
    /\ UNCHANGED outsideLimiter

LimiterNext ==
    \/ \E headers \in LimiterHeaders : LimiterUpdateFromHeaders(headers)
    \/ \E file \in LimiterFiles : LimiterLoadState(file)
    \/ LimiterWaitIfNeeded
    \/ LimiterClockAdvances

LimiterSpec == LimiterInit /\ [][LimiterNext]_vars

(***************************************************************************)
(* Persistence of the RateLimiter: limiters are constructed and updated    *)
(* while the clock advances, saveState writes the state file and a freshly *)
(* constructed limiter loads it.                                           *)
(***************************************************************************)
\* the header maps the limiter is updated from before it is saved
PersistHeaders ==
    {("x-rl-daily-remaining" :> <<"5">>) @@ ("x-rl-hourly-remaining" :> <<"0">>)
         @@ ("x-rl-hourly-reset" :> <<"4", "6", "0", "0">>),
     "x-rl-hourly-reset" :> <<"s", "o", "o", "n">>}

\* the files the limiter in use loads: one that is not valid JSON and one
\* that holds an exhausted hourly window
PersistFiles ==
    {StateFile(TRUE, FALSE, NoMembers, {}),
     StateFile(TRUE, TRUE, "hourly_remaining" :> 0, {})}

PersistInit == IdleRequest /\ IdleOutside

\* RateLimiter::RateLimiter: a limiter constructed now takes the place of the
\* limiter in use
LimiterConstruct ==
    /\ limiter' = NewLimiter(now)
    /\ limiterCall' = Call("RateLimiter", limiter, now, now, NoHeaders, NoFile, FALSE)
    /\ UNCHANGED <<now, stateFile, roundTrip>>
    /\ UNCHANGED outsideLimiter

\* RateLimiter::saveState: writes the file, or fails to open it and logs
LimiterSaveState ==
    /\ \E opened \in BOOLEAN :
          /\ stateFile' = IF opened THEN SaveState(limiter) ELSE stateFile
          /\ roundTrip' = IF opened
                          THEN [saved |-> limiter, loaded |-> NoRoundTrip.loaded,
                                done |-> FALSE]
                          ELSE roundTrip
    /\ limiterCall' = Call("saveState", limiter, now, now, NoHeaders, NoFile, FALSE)
    /\ UNCHANGED <<limiter, now>>
    /\ UNCHANGED outsideLimiter

\* RateLimiter::loadState of the saved file on a limiter constructed now
FreshLoadState ==
    /\ stateFile.exists
    /\ roundTrip' = [roundTrip EXCEPT !.loaded = LoadState(NewLimiter(now), stateFile),
                                      !.done = TRUE]
    /\ UNCHANGED <<limiter, now, limiterCall, stateFile>>
    /\ UNCHANGED outsideLimiter

PersistNext ==
    \/ LimiterClockAdvances
    \/ LimiterConstruct
    \/ \E headers \in PersistHeaders : LimiterUpdateFromHeaders(headers)
    \/ LimiterSaveState
    \/ FreshLoadState
    \/ \E file \in PersistFiles : LimiterLoadState(file)

PersistSpec == PersistInit /\ [][PersistNext]_vars

(***************************************************************************)
(* Response::asString and Response::asJson called on one Response by       *)
(* several threads.                                                        *)
(***************************************************************************)
\* a JSON number without sign, fraction or exponent
IsJsonNumber(text) ==
    /\ text # <<>>
    /\ \A i \in 1..Len(text) : text[i] \in DigitChars
    /\ Len(text) = 1 \/ text[1] # "0"

\* a parsed JSON document: its kind and the tokens of its elements
JsonValue(kind, items) == [kind |-> kind, items |-> items]

\* nlohmann::json::parse on the bodies of the model: whether it returns, and
\* the document it returns (a parse_error is thrown otherwise)
JsonParse(text) ==
    IF IsJsonNumber(text)
    THEN [ok |-> TRUE, value |-> JsonValue("number", <<text>>)]
    ELSE IF text = <<"{", "}">>
    THEN [ok |-> TRUE, value |-> JsonValue("object", <<>>)]
    ELSE IF text = <<"[", "]">>
    THEN [ok |-> TRUE, value |-> JsonValue("array", <<>>)]
    ELSE IF /\ Len(text) >= 3
            /\ text[1] = "["
            /\ text[Len(text)] = "]"
            /\ IsJsonNumber(SubSeq(text, 2, Len(text) - 1))
    THEN [ok |-> TRUE,
          value |-> JsonValue("array", <<SubSeq(text, 2, Len(text) - 1)>>)]
    ELSE [ok |-> FALSE, value |-> JsonValue("null", <<>>)]

\* the bodies of the Responses of the model
ResponseBodies ==
    {<<"{", "}">>, <<"[", "7", "]">>, <<"4", "2">>, <<"{">>, <<"0", "7">>, <<>>}

\* std::string(body_.begin(), body_.end())
BodyString(bytes) == bytes

\* the calls made so far on the Response, those in progress included
CallsMade ==
    LET Counted(c) == Len(jsonResults[c]) + Len(stringResults[c])
                          + (IF callerPc[c] = "idle" THEN 0 ELSE 1)
    IN Counted(1) + Counted(2)

ResponseInit ==
    /\ IdleRequest
    /\ IdleSibling
    /\ IdleBridge
    /\ IdleCoordinator
    /\ IdleBackoff
    /\ IdlePersist
    /\ IdleClient
    /\ IdleHeaders
    /\ IdleUrl
    /\ IdleProgress
    /\ IdleCollection
    /\ IdleGet
    /\ IdleRace
    /\ body \in ResponseBodies
    /\ cachedString = Nothing
    /\ cachedJson = NoJson
    /\ cacheMutex = 0
    /\ callerPc = [c \in Callers |-> "idle"]
    /\ parses = 0
    /\ conversions = 0
    /\ jsonResults = [c \in Callers |-> <<>>]
    /\ stringResults = [c \in Callers |-> <<>>]

\* a caller enters asString or asJson: std::lock_guard takes cacheMutex_
ResponseEnter(c, member) ==
    /\ callerPc[c] = "idle"
    /\ cacheMutex = 0
    /\ CallsMade < MaxCalls
    /\ cacheMutex' = c
    /\ callerPc' = [callerPc EXCEPT ![c] = member]
    /\ UNCHANGED <<body, cachedString, cachedJson, parses, conversions,
                   jsonResults, stringResults>>
    /\ UNCHANGED outsideResponse

\* the body of Response::asString, to its return
AsStringReturns(c) ==
    /\ callerPc[c] = "asString"
    /\ cachedString' = IF cachedString.has THEN cachedString
                       ELSE [has |-> TRUE, value |-> BodyString(body)]
    /\ conversions' = IF cachedString.has THEN conversions ELSE conversions + 1
    /\ stringResults' = [stringResults EXCEPT
                            ![c] = Append(@, cachedString'.value)]
    /\ cacheMutex' = 0
    /\ callerPc' = [callerPc EXCEPT ![c] = "idle"]
    /\ UNCHANGED <<body, cachedJson, parses, jsonResults>>
    /\ UNCHANGED outsideResponse

\* the body of Response::asJson, to its return or to the ParseException it
\* throws
AsJsonReturns(c) ==
    /\ callerPc[c] = "asJson"
    /\ cachedJson' = IF cachedJson.has \/ ~JsonParse(BodyString(body)).ok
                     THEN cachedJson
                     ELSE [has |-> TRUE, value |-> JsonParse(BodyString(body)).value]
    /\ parses' = IF cachedJson.has THEN parses ELSE parses + 1
    /\ jsonResults' = [jsonResults EXCEPT
                          ![c] = Append(@, [threw |-> ~cachedJson'.has,
                                            value |-> cachedJson'.value])]
    /\ cacheMutex' = 0
    /\ callerPc' = [callerPc EXCEPT ![c] = "idle"]
    /\ UNCHANGED <<body, cachedString, conversions, stringResults>>
    /\ UNCHANGED outsideResponse

ResponseNext ==
    \/ \E c \in Callers : ResponseEnter(c, "asString")
    \/ \E c \in Callers : ResponseEnter(c, "asJson")
    \/ \E c \in Callers : AsStringReturns(c)
    \/ \E c \in Callers : AsJsonReturns(c)

ResponseSpec == ResponseInit /\ [][ResponseNext]_vars

(***************************************************************************)
(* Client defaults: the Client is configured, sendAsync makes a Request,   *)
(* the caller sets options on the Request and executes it.                 *)
(***************************************************************************)
\* a std::optional<std::chrono::seconds> holding a value
SomeTimeout(seconds) == [has |-> TRUE, value |-> seconds]

\* the timeout the Client is given as its default, in seconds
ClientTimeoutSeconds == 30

\* the timeout the caller sets on the Request, in seconds
RequestTimeoutSeconds == 10

\* the fallback of options_.timeout.value_or in executeInternal, in seconds
FallbackTimeoutSeconds == 60

\* the options given to FluentClient::setOptions
ClientOptionsPool ==
    {RequestOptions("true", NoTimeout),
     RequestOptions("unset", SomeTimeout(ClientTimeoutSeconds)),
     RequestOptions("true", SomeTimeout(ClientTimeoutSeconds))}

\* the options given to Request::withOptions
RequestOptionsPool ==
    {RequestOptions("false", NoTimeout),
     RequestOptions("unset", SomeTimeout(RequestTimeoutSeconds))}

\* the configs given to setRequestCoordinator and setRetryPolicy
ClientPolicyPool ==
    {<<ServerErrorRetryConfig(1, 10, 25)>>,
     <<TimeoutRetryConfig(2, 500), RateLimitRetryConfig(1)>>}

\* the retry configs the caller sets on the Request
DefaultsRetryConfigs == {ServerErrorRetryConfig(1, 10, 25)}

DefaultsInit ==
    /\ IdleRequest
    /\ IdleSibling
    /\ IdleBridge
    /\ IdleCoordinator
    /\ IdleBackoff
    /\ IdlePersist
    /\ IdleResponse
    /\ IdleHeaders
    /\ IdleUrl
    /\ IdleProgress
    /\ IdleCollection
    /\ IdleGet
    /\ IdleRace
    /\ requestCreated = FALSE
    /\ timeout = NoTimeout
    /\ clientOptions = NoOptions
    /\ clientCoordinator = NoCoordinator
    /\ clientRetryPolicy = <<>>

\* FluentClient::setOptions
ClientSetOptions(options) ==
    /\ ~requestCreated
    /\ clientOptions' = options
    /\ UNCHANGED <<requestCreated, timeout, clientCoordinator, clientRetryPolicy>>
    /\ UNCHANGED outsideClient

\* FluentClient::setRequestTimeout
ClientSetRequestTimeout(seconds) ==
    /\ ~requestCreated
    /\ clientOptions' = [clientOptions EXCEPT !.timeout = SomeTimeout(seconds)]
    /\ UNCHANGED <<requestCreated, timeout, clientCoordinator, clientRetryPolicy>>
    /\ UNCHANGED outsideClient

\* FluentClient::setRequestCoordinator, with a coordinator holding configs
ClientSetRequestCoordinator(configs) ==
    /\ ~requestCreated
    /\ clientCoordinator' = [set |-> TRUE, configs |-> configs]
    /\ UNCHANGED <<requestCreated, timeout, clientOptions, clientRetryPolicy>>
    /\ UNCHANGED outsideClient

\* FluentClient::setRetryPolicy(configs): the argument is discarded, no
\* member of the Client changes; clientRetryPolicy only remembers the call
ClientSetRetryPolicy(configs) ==
    /\ ~requestCreated
    /\ clientRetryPolicy' = configs
    /\ UNCHANGED <<requestCreated, timeout, clientOptions, clientCoordinator>>
    /\ UNCHANGED outsideClient

\* FluentClient::disableRetries
ClientDisableRetries ==
    /\ ~requestCreated
    /\ clientCoordinator' = NoCoordinator
    /\ UNCHANGED <<requestCreated, timeout, clientOptions, clientRetryPolicy>>
    /\ UNCHANGED outsideClient

\* FluentClient::sendAsync: makes the Request and copies the default timeout
\* when there is one
SendAsync ==
    /\ ~requestCreated
    /\ requestCreated' = TRUE
    /\ timeout' = IF clientOptions.timeout.has THEN clientOptions.timeout
                  ELSE NoTimeout
    /\ UNCHANGED <<clientOptions, clientCoordinator, clientRetryPolicy>>
    /\ UNCHANGED outsideClient

\* Request::withOptions: options_ is replaced as a whole
WithOptions(options) ==
    /\ requestCreated
    /\ pc = "build"
    /\ ignoreHttpErrors' = options.ignoreHttpErrors
    /\ timeout' = options.timeout
    /\ UNCHANGED <<requestCreated, clientOptions, clientCoordinator,
                   clientRetryPolicy>>
    /\ UNCHANGED <<clientFilters, additionalFilters, removedFilterTypes,
                   retryConfig, disableRetry, cancellationToken, execVars,
                   limiterVars, siblingVars, bridgeVars, coordVars, backoffVars,
                   persistVars, responseVars, headerVars, urlVars,
                   progressVars, collectionVars, getVars, raceVars>>

\* Request::withTimeout
WithTimeout(seconds) ==
    /\ requestCreated
    /\ pc = "build"
    /\ timeout' = SomeTimeout(seconds)
    /\ UNCHANGED <<requestCreated, clientOptions, clientCoordinator,
                   clientRetryPolicy>>
    /\ UNCHANGED outsideClient

\* config.timeout = options_.timeout.value_or(std::chrono::seconds{60})
ConfigTimeout(requestTimeout) ==
    IF requestTimeout.has THEN requestTimeout.value ELSE FallbackTimeoutSeconds

DefaultsNext ==
    \/ \E options \in ClientOptionsPool : ClientSetOptions(options)
    \/ ClientSetRequestTimeout(ClientTimeoutSeconds)
    \/ \E configs \in ClientPolicyPool : ClientSetRequestCoordinator(configs)
    \/ \E configs \in ClientPolicyPool : ClientSetRetryPolicy(configs)
    \/ ClientDisableRetries
    \/ ~requestCreated /\ ClientAddFilter("err")
    \/ SendAsync
    \/ \E options \in RequestOptionsPool : WithOptions(options)
    \/ WithTimeout(RequestTimeoutSeconds)
    \/ requestCreated /\ \E b \in BOOLEAN : WithIgnoreHttpErrors(b)
    \/ requestCreated /\ \E cfg \in DefaultsRetryConfigs : WithRetryConfig(cfg)
    \/ requestCreated /\ Execute
    \/ \E status \in {200, 404, 503} : AttemptResponse(status, NoHeaders)
    \/ AttemptNetworkError("Timeout")
    \/ SleepReturns

DefaultsSpec == DefaultsInit /\ [][DefaultsNext]_vars

(***************************************************************************)
(* Headers: the caller sets headers on the Request and defaults on the     *)
(* Client, and Execute merges them in applyRequestFilters.                 *)
(***************************************************************************)
\* the most default customizers added to the Client
MaxCustomizers == 2

\* the header names the caller sets on a Request
RequestHeaderNames == {"authorization", "Authorization", "Accept"}

\* what each default customizer does: withHeader(key, value) on the Request
Customizers ==
    {[key |-> "Accept", value |-> "customizer"],
     [key |-> "X-Trace", value |-> "customizer"]}

\* the filters added to the Client before the Request executes
HeaderFilters == {"log", "err"}

HeadersInit ==
    /\ IdleRequest
    /\ IdleSibling
    /\ IdleBridge
    /\ IdleCoordinator
    /\ IdleBackoff
    /\ IdlePersist
    /\ IdleResponse
    /\ IdleClient
    /\ IdleHeaders
    /\ IdleUrl
    /\ IdleProgress
    /\ IdleCollection
    /\ IdleGet
    /\ IdleRace

\* Request::withHeader
WithHeader(key, value) ==
    /\ pc = "build"
    /\ headers_' = SetHeader(headers_, key, value)
    /\ UNCHANGED <<defaultHeaders_, defaultCustomizers_, applyLog>>
    /\ UNCHANGED outsideHeaders

\* FluentClient::setAuthentication, value standing for scheme + " " + parameter
ClientSetAuthentication(value) ==
    /\ pc = "build"
    /\ defaultHeaders_' = SetHeader(defaultHeaders_, "Authorization", value)
    /\ UNCHANGED <<headers_, defaultCustomizers_, applyLog>>
    /\ UNCHANGED outsideHeaders

\* FluentClient::setUserAgent
ClientSetUserAgent(userAgent) ==
    /\ pc = "build"
    /\ defaultHeaders_' = SetHeader(defaultHeaders_, "User-Agent", userAgent)
    /\ UNCHANGED <<headers_, defaultCustomizers_, applyLog>>
    /\ UNCHANGED outsideHeaders

\* FluentClient::addDefault
ClientAddDefault(configure) ==
    /\ pc = "build"
    /\ Len(defaultCustomizers_) < MaxCustomizers
    /\ defaultCustomizers_' = Append(defaultCustomizers_, configure)
    /\ UNCHANGED <<headers_, defaultHeaders_, applyLog>>
    /\ UNCHANGED outsideHeaders

\* FluentClient::clearDefaults
ClientClearDefaults ==
    /\ pc = "build"
    /\ defaultCustomizers_' = <<>>
    /\ defaultHeaders_' = NoHeaders
    /\ UNCHANGED <<headers_, applyLog>>
    /\ UNCHANGED outsideHeaders

HeadersNext ==
    \/ \E key \in RequestHeaderNames : WithHeader(key, "request")
    \/ ClientSetAuthentication("client")
    \/ ClientSetUserAgent("client")
    \/ \E configure \in Customizers : ClientAddDefault(configure)
    \/ ClientClearDefaults
    \/ \E f \in HeaderFilters : ClientAddFilter(f)
    \/ \E cfg \in DefaultsRetryConfigs : WithRetryConfig(cfg)
    \/ Execute
    \/ \E status \in {200, 503} : AttemptResponse(status, NoHeaders)
    \/ SleepReturns

HeadersSpec == HeadersInit /\ [][HeadersNext]_vars

(***************************************************************************)
(* URL building: Request::buildFullUrl on the Client's base URL, the       *)
(* Request's resource and its query parameters.                            *)
(***************************************************************************)
\* the most query parameters a Request is given
MaxArgs == 2

\* std::isalnum(c) || c == '-' || c == '_' || c == '.' || c == '~', on the
\* characters the model uses
Unreserved ==
    {"a", "e", "g", "i", "m", "p", "s", "t", "v", "1", "2", "-", "_", ".", "~"}

\* int(static_cast<unsigned char>(c)) for the other characters of the model
CharCode(c) ==
    CASE c = " " -> 32
      [] c = "&" -> 38
      [] c = "/" -> 47
      [] c = ":" -> 58
      [] c = "=" -> 61
      [] c = "?" -> 63

\* the digits std::hex writes under std::uppercase
HexDigits ==
    <<"0", "1", "2", "3", "4", "5", "6", "7", "8", "9", "A", "B", "C", "D", "E", "F">>

\* '%' followed by the code as two hexadecimal digits (setw(2), fill '0')
PercentEncoded(c) ==
    <<"%", HexDigits[(CharCode(c) \div 16) + 1], HexDigits[(CharCode(c) % 16) + 1]>>

\* detail::urlEncode
RECURSIVE UrlEncode(_)
UrlEncode(input) ==
    IF input = <<>> THEN <<>>
    ELSE (IF Head(input) \in Unreserved THEN <<Head(input)>>
          ELSE PercentEncoded(Head(input)))
         \o UrlEncode(Tail(input))

\* the loop of buildFullUrl over queryParams_ from position i: '&' before
\* every pair but the first, then urlEncode(key) '=' urlEncode(value)
RECURSIVE QueryFrom(_, _)
QueryFrom(params, i) ==
    IF i > Len(params) THEN <<>>
    ELSE (IF i = 1 THEN <<>> ELSE <<"&">>)
         \o UrlEncode(params[i][1]) \o <<"=">> \o UrlEncode(params[i][2])
         \o QueryFrom(params, i + 1)

\* Request::buildFullUrl
BuildFullUrl(base, resource, params) ==
    base
    \o (IF resource # <<>>
        THEN (IF base # <<>> /\ base[Len(base)] # "/" /\ Head(resource) # "/"
              THEN <<"/">> ELSE <<>>)
             \o resource
        ELSE <<>>)
    \o (IF params # <<>> THEN <<"?">> \o QueryFrom(params, 1) ELSE <<>>)

\* "https://api.test"
ApiTest ==
    <<"h", "t", "t", "p", "s", ":", "/", "/", "a", "p", "i", ".", "t", "e", "s", "t">>

\* "v1/items"
V1Items == <<"v", "1", "/", "i", "t", "e", "m", "s">>

\* the base URLs of the Client: without and with a trailing '/'
BaseUrls == {ApiTest, ApiTest \o <<"/">>}

\* the resources of the Request: without and with a leading '/'
Resources == {V1Items, <<"/">> \o V1Items}

\* the query parameters given to the Request: page=2, "a g"="&", tag="a=1"
Arguments ==
    {<<<<"p", "a", "g", "e">>, <<"2">>>>,
     <<<<"a", " ", "g">>, <<"&">>>>,
     <<<<"t", "a", "g">>, <<"a", "=", "1">>>>}

\* a Client constructed on a base URL and the Request made for a resource
UrlInit ==
    /\ IdleRequest
    /\ IdleSibling
    /\ IdleBridge
    /\ IdleCoordinator
    /\ IdleBackoff
    /\ IdlePersist
    /\ IdleResponse
    /\ IdleClient
    /\ IdleHeaders
    /\ IdleProgress
    /\ IdleCollection
    /\ IdleGet
    /\ IdleRace
    /\ baseUrl_ \in BaseUrls
    /\ resource_ \in Resources
    /\ queryParams_ = <<>>
    /\ builtUrl = NoUrl

\* FluentClient::setBaseUrl
ClientSetBaseUrl(base) ==
    /\ baseUrl_' = base
    /\ UNCHANGED <<resource_, queryParams_, builtUrl>>
    /\ UNCHANGED outsideUrl

\* Request::withArgument
WithArgument(key, value) ==
    /\ Len(queryParams_) < MaxArgs
    /\ queryParams_' = Append(queryParams_, <<key, value>>)
    /\ UNCHANGED <<baseUrl_, resource_, builtUrl>>
    /\ UNCHANGED outsideUrl

\* Request::withArguments(vector): every pair is appended, in order
WithArguments(arguments) ==
    /\ Len(queryParams_) + Len(arguments) <= MaxArgs
    /\ queryParams_' = queryParams_ \o arguments
    /\ UNCHANGED <<baseUrl_, resource_, builtUrl>>
    /\ UNCHANGED outsideUrl

\* a call of buildFullUrl, as executeInternal makes for every attempt
UrlBuild ==
    /\ builtUrl' = [built |-> TRUE,
                    url |-> BuildFullUrl(baseUrl_, resource_, queryParams_)]
    /\ UNCHANGED <<baseUrl_, resource_, queryParams_>>
    /\ UNCHANGED outsideUrl

UrlNext ==
    \/ \E base \in BaseUrls : ClientSetBaseUrl(base)
    \/ \E a \in Arguments : WithArgument(a[1], a[2])
    \/ \E a, b \in Arguments : WithArguments(<<a, b>>)
    \/ UrlBuild

UrlSpec == UrlInit /\ [][UrlNext]_vars

(***************************************************************************)
(* Download progress: curl calls the progress function during a transfer,  *)
(* which throttles the calls of the user's callback.                       *)
(***************************************************************************)
\* ProgressContext::minInterval, the 100 of HttpClient::progressCallback (ms)
MinIntervalMs == 100

\* milliseconds the steady clock advances in one step of the model
SteadyStep == 50

\* the most steps the steady clock takes during a download
MaxSteadySteps == 5

\* the bytes of one chunk and the chunks of the downloaded file
ChunkBytes == 10
FileChunks == 2

\* the most invocations of the user's callback the model records
MaxInvocations == 4

FileBytes == ChunkBytes * FileChunks

\* the throttle of progressCallback: enough time since the last update, or
\* dlnow == dltotal
ProgressDue(t, last, total, current) ==
    t - last >= MinIntervalMs \/ current = total

\* a download starts: lastUpdate is the time the transfer is set up
ProgressInit ==
    /\ IdleRequest
    /\ IdleSibling
    /\ IdleBridge
    /\ IdleCoordinator
    /\ IdleBackoff
    /\ IdlePersist
    /\ IdleResponse
    /\ IdleClient
    /\ IdleHeaders
    /\ IdleUrl
    /\ IdleCollection
    /\ IdleGet
    /\ IdleRace
    /\ contentLength \in {0, FileBytes}
    /\ dltotal = 0
    /\ dlnow = 0
    /\ steadyNow = 0
    /\ lastUpdate = 0
    /\ invocations = <<>>
    /\ transferDone = FALSE

SteadyClockAdvances ==
    /\ ~transferDone
    /\ steadyNow < MaxSteadySteps * SteadyStep
    /\ steadyNow' = steadyNow + SteadyStep
    /\ UNCHANGED <<contentLength, dltotal, dlnow, lastUpdate, invocations,
                   transferDone>>
    /\ UNCHANGED outsideProgress

\* the response headers arrive: curl learns the announced size
ResponseHeadersArrive ==
    /\ ~transferDone
    /\ dlnow = 0
    /\ dltotal = 0
    /\ contentLength # 0
    /\ dltotal' = contentLength
    /\ UNCHANGED <<contentLength, dlnow, steadyNow, lastUpdate, invocations,
                   transferDone>>
    /\ UNCHANGED outsideProgress

\* a chunk of the body arrives
ChunkArrives ==
    /\ ~transferDone
    /\ dltotal = contentLength
    /\ dlnow < FileBytes
    /\ dlnow' = dlnow + ChunkBytes
    /\ UNCHANGED <<contentLength, dltotal, steadyNow, lastUpdate, invocations,
                   transferDone>>
    /\ UNCHANGED outsideProgress

\* progressCallback(userdata, dltotal, dlnow, ...), as curl calls it during
\* the transfer and, with last, a final time when the transfer is complete
ProgressCallback(last) ==
    /\ ~transferDone
    /\ last => (dlnow = FileBytes)
    /\ IF ProgressDue(steadyNow, lastUpdate, dltotal, dlnow)
       THEN /\ lastUpdate' = steadyNow
            /\ invocations' = Append(invocations,
                  [at |-> steadyNow, dlnow |-> dlnow, dltotal |-> dltotal])
       ELSE UNCHANGED <<lastUpdate, invocations>>
    /\ transferDone' = last
    /\ Len(invocations) < MaxInvocations
    /\ UNCHANGED <<contentLength, dltotal, dlnow, steadyNow>>
    /\ UNCHANGED outsideProgress

ProgressNext ==
    \/ SteadyClockAdvances
    \/ ResponseHeadersArrive
    \/ ChunkArrives
    \/ \E last \in BOOLEAN : ProgressCallback(last)

ProgressSpec == ProgressInit /\ [][ProgressNext]_vars

(***************************************************************************)
(* FilterCollection: add, remove, removeAll<T> and clear on one            *)
(* collection; the same filter object may be added more than once.         *)
(***************************************************************************)
\* the most add calls on the collection
MaxAdds == 4

\* the filter objects given to the collection
CollectionFilters == {"log", "mockA", "mockB", "err"}

\* variant of SortByPriority that leaves the vector in insertion order
SortByPriorityUnsorted(s) == {s}

\* FilterCollection::sortByPriority: std::sort by a->priority() < b->priority()
\* on a vector that may hold an element twice; every sorted rearrangement is
\* a possible result
SortByPriority(s) ==
    {[i \in 1..Len(s) |-> s[p[i]]] :
        p \in {q \in [1..Len(s) -> 1..Len(s)] :
                 /\ \A i, j \in 1..Len(s) : q[i] = q[j] => i = j
                 /\ \A i, j \in 1..Len(s) :
                       i < j => ~(Priority(s[q[j]]) < Priority(s[q[i]]))}}

\* variant of EraseFirst that erases every entry equal to f
EraseEvery(s, f) == SelectSeq(s, LAMBDA g : g # f)

\* filters_.erase(std::find(filters_.begin(), filters_.end(), filter)) for a
\* filter that is in the vector
EraseFirst(s, f) ==
    LET k == CHOOSE i \in 1..Len(s) : s[i] = f /\ \A j \in 1..(i - 1) : s[j] # f
    IN SubSeq(s, 1, k - 1) \o SubSeq(s, k + 1, Len(s))

\* an empty FilterCollection
CollectionInit ==
    /\ IdleRequest
    /\ IdleSibling
    /\ IdleBridge
    /\ IdleCoordinator
    /\ IdleBackoff
    /\ IdleLater

\* FilterCollection::add
CollectionAdd(f) ==
    /\ addedCount < MaxAdds
    /\ filters_' \in SortByPriority(Append(filters_, f))
    /\ addedCount' = addedCount + 1
    /\ UNCHANGED <<removedCount, lastRemove>>
    /\ UNCHANGED outsideCollection

\* FilterCollection::remove
CollectionRemove(f) ==
    /\ IF f \in Range(filters_)
       THEN /\ filters_' = EraseFirst(filters_, f)
            /\ removedCount' = removedCount + 1
       ELSE UNCHANGED <<filters_, removedCount>>
    /\ lastRemove' = [called |-> TRUE, filter |-> f, before |-> filters_,
                      returned |-> f \in Range(filters_)]
    /\ UNCHANGED addedCount
    /\ UNCHANGED outsideCollection

\* FilterCollection::removeAll<T>, which returns the number removed
CollectionRemoveAll(t) ==
    /\ filters_' = SelectSeq(filters_, LAMBDA f : FilterType(f) # t)
    /\ removedCount' = removedCount
          + Len(SelectSeq(filters_, LAMBDA f : FilterType(f) = t))
    /\ UNCHANGED <<addedCount, lastRemove>>
    /\ UNCHANGED outsideCollection

\* FilterCollection::clear
CollectionClear ==
    /\ filters_' = <<>>
    /\ removedCount' = removedCount + Len(filters_)
    /\ UNCHANGED <<addedCount, lastRemove>>
    /\ UNCHANGED outsideCollection

CollectionNext ==
    \/ \E f \in CollectionFilters : CollectionAdd(f)
    \/ \E f \in CollectionFilters : CollectionRemove(f)
    \/ \E f \in CollectionFilters : CollectionRemoveAll(FilterType(f))
    \/ CollectionClear

CollectionSpec == CollectionInit /\ [][CollectionNext]_vars

(***************************************************************************)
(* core/HttpClient::get: waitIfNeeded, then the transfer loop with the     *)
(* limiter update, the retry decision and the translation of the status.   *)
(***************************************************************************)
\* the largest retry_policy_.max_retries of the model
MaxGetRetries == 2

\* RetryPolicy::initial_delay_ms and max_delay_ms as HttpClient.h sets them
InitialDelayMs == 1000
MaxDelayMs == 16000

\* one curl_easy_perform: whether it returned CURLE_OK, and the response code
Transfer(ok, status) == [ok |-> ok, status |-> status]

\* what curl_easy_perform and CURLINFO_RESPONSE_CODE give: a network error
\* without a response, or a complete response
GetTransfers ==
    {Transfer(FALSE, 0)}
    \cup {Transfer(TRUE, status) : status \in {200, 401, 403, 404, 429, 503}}

\* the response headers of a transfer: none, limiter headers, a limit header
\* that is no number
GetHeaders ==
    {NoHeaders,
     "x-rl-hourly-remaining" :> <<"7">>,
     "x-rl-daily-limit" :> <<"a", "b", "c">>}

\* HttpClient::shouldRetry
ShouldRetryGet(status_code, curl_ok) ==
    IF ~curl_ok THEN TRUE
    ELSE IF status_code >= 500 /\ status_code < 600 THEN TRUE
    ELSE FALSE

\* HttpClient::calculateRetryDelay with exponential_backoff, for the attempts
\* of the model (1 << attempt does not overflow)
CalculateRetryDelay(n) ==
    Min(InitialDelayMs * ShiftOne(n), MaxDelayMs)

\* HttpClient::throwOnError: the exception class raised, "" for 2xx
ThrowOnError(status_code) ==
    IF status_code >= 200 /\ status_code < 300 THEN ""
    ELSE IF status_code = 429 THEN "RateLimitException"
    ELSE IF status_code \in {401, 403} THEN "AuthException"
    ELSE "ApiException"

\* a caller about to call get on a client with some retry policy and a fresh
\* rate limiter
HttpGetInit ==
    /\ IdleRequest
    /\ IdleSibling
    /\ IdleBridge
    /\ IdleCoordinator
    /\ IdleBackoff
    /\ IdlePersist
    /\ IdleResponse
    /\ IdleClient
    /\ IdleHeaders
    /\ IdleUrl
    /\ IdleProgress
    /\ IdleCollection
    /\ IdleRace
    /\ getPc = "idle"
    /\ getAttempt = 0
    /\ max_retries \in -1..MaxGetRetries
    /\ transfers = <<>>
    /\ getResult = NoResult
    /\ getDelays = <<>>

\* the entry of HttpClient::get: rate_limiter_.waitIfNeeded()
HttpGetCall ==
    /\ getPc = "idle"
    /\ now' \in WaitIfNeededReturns(limiter, now)
    /\ getPc' = "transfer"
    /\ UNCHANGED <<limiter, getAttempt, max_retries, transfers, getResult, getDelays>>
    /\ UNCHANGED outsideGet

\* one iteration of the loop up to its sleep or its exit: the transfer, the
\* limiter update (whose std::stoi exceptions leave get), the handling of a
\* curl error, of a retryable status and of the other statuses
HttpGetTransfer(transfer, headers) ==
    /\ getPc = "transfer"
    /\ getAttempt <= max_retries
    /\ transfers' = Append(transfers, transfer)
    /\ LET update == UpdateFromHeaders(limiter, headers, now)
           exhausted == getAttempt >= max_retries
       IN /\ limiter' = update.limiter
          /\ IF update.threw
             THEN /\ getResult' = RaisedError("std::invalid_argument",
                                              transfer.status, "", getAttempt + 1)
                  /\ getPc' = "done"
                  /\ UNCHANGED getDelays
             ELSE IF ~transfer.ok /\ exhausted
             THEN /\ getResult' = RaisedError("NetworkException", 0,
                                              "Network error", getAttempt + 1)
                  /\ getPc' = "done"
                  /\ UNCHANGED getDelays
             ELSE IF ShouldRetryGet(transfer.status, transfer.ok) /\ exhausted
             THEN /\ getResult' = RaisedError(ThrowOnError(transfer.status),
                                              transfer.status, "", getAttempt + 1)
                  /\ getPc' = "done"
                  /\ UNCHANGED getDelays
             ELSE IF ShouldRetryGet(transfer.status, transfer.ok)
             THEN /\ getDelays' = Append(getDelays, CalculateRetryDelay(getAttempt))
                  /\ getPc' = "sleep"
                  /\ UNCHANGED getResult
             ELSE IF transfer.status >= 400
             THEN /\ getResult' = RaisedError(ThrowOnError(transfer.status),
                                              transfer.status, "", getAttempt + 1)
                  /\ getPc' = "done"
                  /\ UNCHANGED getDelays
             ELSE /\ getResult' = ReturnedResponse(transfer.status, getAttempt + 1)
                  /\ getPc' = "done"
                  /\ UNCHANGED getDelays
    /\ UNCHANGED <<now, getAttempt, max_retries>>
    /\ UNCHANGED outsideGet

\* sleep_for returns: attempt++; continue
HttpGetSleepReturns ==
    /\ getPc = "sleep"
    /\ getAttempt' = getAttempt + 1
    /\ getPc' = "transfer"
    /\ UNCHANGED <<limiterVars, max_retries, transfers, getResult, getDelays>>
    /\ UNCHANGED outsideGet

\* the loop condition attempt <= max_retries fails: the throw after the loop
HttpGetLoopExits ==
    /\ getPc = "transfer"
    /\ getAttempt > max_retries
    /\ getResult' = RaisedError("NetworkException", 0, "Max retries exceeded",
                                getAttempt)
    /\ getPc' = "done"
    /\ UNCHANGED <<limiterVars, getAttempt, max_retries, transfers, getDelays>>
    /\ UNCHANGED outsideGet

HttpGetNext ==
    \/ HttpGetCall
    \/ \E transfer \in GetTransfers :
          \E headers \in (IF transfer.ok THEN GetHeaders ELSE {NoHeaders}) :
             HttpGetTransfer(transfer, headers)
    \/ HttpGetSleepReturns
    \/ HttpGetLoopExits

HttpGetSpec == HttpGetInit /\ [][HttpGetNext]_vars

(***************************************************************************)
(* Two in-flight Requests deliver their response headers to one rate       *)
(* limiter while a third thread calls canMakeRequest.  RateLimiter holds   *)
(* no lock: the six assignments of an updateFromHeaders call and the two   *)
(* reads of canMakeRequest interleave.  The racing accesses to one int or  *)
(* time point are a data race; the model takes the outcome in which every  *)
(* single load and store is whole, the least damaging one a build gives.   *)
(***************************************************************************)
\* the header maps the two responses carry
RaceHeaders ==
    {("x-rl-daily-remaining" :> <<"5">>) @@ ("x-rl-hourly-remaining" :> <<"0">>),
     ("X-RL-Daily-Remaining" :> <<"9">>) @@ ("X-RL-Hourly-Remaining" :> <<"3">>),
     ("x-rl-daily-remaining" :> <<"0">>)
         @@ ("x-rl-daily-reset" :> <<"1", "0", "0", "5">>)}

\* the i-th assignment of updateFromHeaders on its own: the limiter it
\* leaves and whether std::stoi threw
UpdateAssignment(lim, headers, t, i) ==
    LET step == UpdateSteps[i]
        text == GetHeaderValue(headers, step.header)
    IN IF text = <<>> THEN [limiter |-> lim, threw |-> FALSE]
       ELSE IF step.time
       THEN [limiter |-> [lim EXCEPT ![step.field] = ParseTimestamp(text, t)],
             threw |-> FALSE]
       ELSE IF Stoi(text).ok
       THEN [limiter |-> [lim EXCEPT ![step.field] = Stoi(text).value],
             threw |-> FALSE]
       ELSE [limiter |-> lim, threw |-> TRUE]

RaceInit ==
    /\ IdleRequest
    /\ IdleSibling
    /\ IdleBridge
    /\ IdleCoordinator
    /\ IdleBackoff
    /\ IdleLater

\* RateLimitFilter::onResponse of Request u calls
\* rateLimiter_->updateFromHeaders(response.headers())
RaceUpdateCalled(u, headers) ==
    /\ updPc[u] = 0
    /\ updPc' = [updPc EXCEPT ![u] = 1]
    /\ updHeaders' = [updHeaders EXCEPT ![u] = headers]
    /\ UNCHANGED <<limiter, now, raceStart, readerPc, observed>>
    /\ UNCHANGED outsideRace

\* the next assignment of the updateFromHeaders call of Request u; a
\* std::stoi that throws ends the call
RaceUpdateStep(u) ==
    /\ updPc[u] \in 1..Len(UpdateSteps)
    /\ LET made == UpdateAssignment(limiter, updHeaders[u], now, updPc[u])
       IN /\ limiter' = made.limiter
          /\ updPc' = [updPc EXCEPT ![u] = IF made.threw
                                           THEN Len(UpdateSteps) + 1
                                           ELSE updPc[u] + 1]
    /\ UNCHANGED <<now, updHeaders, raceStart, readerPc, observed>>
    /\ UNCHANGED outsideRace

\* canMakeRequest is entered
RaceCanMakeRequestCalled ==
    /\ readerPc = "idle"
    /\ readerPc' = "daily"
    /\ UNCHANGED <<limiter, now, updPc, updHeaders, raceStart, observed>>
    /\ UNCHANGED outsideRace

\* daily_remaining_ > 0: the left operand of &&; the right one is not
\* evaluated when it is false
RaceReadDaily ==
    /\ readerPc = "daily"
    /\ observed' = [observed EXCEPT !.daily = limiter.dailyRemaining,
                                    !.reads = 1]
    /\ readerPc' = IF limiter.dailyRemaining > 0 THEN "hourly" ELSE "done"
    /\ UNCHANGED <<limiter, now, updPc, updHeaders, raceStart>>
    /\ UNCHANGED outsideRace

\* hourly_remaining_ > 0
RaceReadHourly ==
    /\ readerPc = "hourly"
    /\ observed' = [observed EXCEPT !.hourly = limiter.hourlyRemaining,
                                    !.reads = 2]
    /\ readerPc' = "done"
    /\ UNCHANGED <<limiter, now, updPc, updHeaders, raceStart>>
    /\ UNCHANGED outsideRace

RaceNext ==
    \/ \E u \in Updaters, headers \in RaceHeaders : RaceUpdateCalled(u, headers)
    \/ \E u \in Updaters : RaceUpdateStep(u)
    \/ RaceCanMakeRequestCalled
    \/ RaceReadDaily
    \/ RaceReadHourly

RaceSpec == RaceInit /\ [][RaceNext]_vars

TypeOK ==
    /\ pc \in {"build", "loop", "sleep", "done"}
    /\ attempt \in 0..(MaxRetriesB + 2)
    /\ Range(clientFilters) \subseteq ClientFilterPool
    /\ Range(additionalFilters) \subseteq RequestFilterPool
    /\ removedFilterTypes \subseteq FilterTypes
    /\ result.kind \in {"none", "response", "error"}

(***************************************************************************)
(* Properties of the execution.                                            *)
(***************************************************************************)
\* the attempt numbered attempt has called the transport and its outcome has
\* been handled (retry scheduled, response returned or error raised)
AttemptHandled == attempt >= 1 /\ Len(outcomes) = attempt

LastOutcome == outcomes[Len(outcomes)]

\* the attempt budget of the Request, from its builder state
Budget ==
    IF disableRetry \/ retryConfig.kind = "none" THEN 1
    ELSE retryConfig.maxRetries + 1

\* a response filter raised during the latest attempt
ResponseFilterRaised ==
    /\ pc = "done"
    /\ result.kind = "error"
    /\ result.type \in {"ApiException", "RateLimitException", "AuthException"}
    /\ result.attemptNo = attempt

NoDuplicates(s) == \A i, j \in 1..Len(s) : s[i] = s[j] => i = j

\* C1: in every attempt that got a response, the filters' onResponse hooks are
\* invoked in exactly the reverse of the order in which their onRequest hooks
\* were invoked: the response order is a prefix of the reversed request order,
\* and the whole of it unless a filter raised.
C1_ResponseOrderIsReverse ==
    (AttemptHandled /\ LastOutcome.kind = "response")
        => /\ IsPrefix(respOrder, Reverse(reqOrder))
           /\ (~ResponseFilterRaised => respOrder = Reverse(reqOrder))

C3_RetryableResponseIsRetried ==
    (/\ AttemptHandled
     /\ LastOutcome.kind = "response"
     /\ RetryActive
     /\ ShouldRetry(retryConfig, LastOutcome.status, FALSE)
     /\ attempt < Budget)
        => /\ pc = "sleep"
           /\ Len(delays) = attempt
           /\ delays[attempt] = GetDelay(retryConfig, attempt, LastOutcome.status)

\* C4: the transport is called at most Budget times (1 without an active
\* retry config, maxRetries+1 with one), and an execution that has started
\* ends when every transport call and every sleep returns.
C4_BoundedAttemptsAndTermination ==
    /\ [](Len(outcomes) <= Budget)
    /\ ((pc = "loop") ~> (pc = "done"))

\* an execution that used its whole budget of four attempts and ended
C4_Witness ==
    /\ pc = "done"
    /\ Budget = MaxRetriesB + 1
    /\ Len(outcomes) = Budget

\* C5: no delay precedes the first transport call; the delay slept before the
\* k-th retry is getDelay(k, status of the k-th attempt); under
\* ServerErrorRetryConfig(3, 10ms) transport results 503, 503, 200 give
\* exactly three calls, delays 10ms and 20ms, and a Response of status 200.
C5_DelaysFollowAttemptNumber ==
    /\ (Len(outcomes) = 0 => delays = <<>>)
    /\ Len(delays) <= Len(outcomes)
    /\ Len(outcomes) <= Len(delays) + 1
    /\ \A k \in 1..Len(delays) :
          delays[k] = GetDelay(retryConfig, k, outcomes[k].status)
    /\ (/\ RetryActive
        /\ retryConfig.kind = "ServerError"
        /\ retryConfig.maxRetries = 3
        /\ retryConfig.initialDelay = 10
        /\ Len(outcomes) >= 3
        /\ SubSeq(outcomes, 1, 3) = <<ResponseOutcome(503), ResponseOutcome(503),
                                      ResponseOutcome(200)>>)
          => /\ pc = "done"
             /\ Len(outcomes) = 3
             /\ delays = <<10, 20>>
             /\ result = ReturnedResponse(200, 3)

\* the 503, 503, 200 scenario has run to its end
C5_Witness ==
    /\ retryConfig = ServerErrorRetryConfig(3, 10, 25)
    /\ outcomes = <<ResponseOutcome(503), ResponseOutcome(503), ResponseOutcome(200)>>
    /\ delays = <<10, 20>>
    /\ result.kind = "response"

\* C6: after a transport call failed with a network error, the Request has
\* slept getDelay(attempt, 0) and retries if its config accepts
\* shouldRetry(0, isTimeout) and attempts remain, isTimeout being true exactly
\* for a timeout; otherwise it has ended raising that same network error.
C6_NetworkErrorRetriedOrPropagated ==
    (AttemptHandled /\ LastOutcome.kind = "network")
        => IF /\ RetryActive
              /\ ShouldRetry(retryConfig, 0, LastOutcome.reason = "Timeout")
              /\ attempt < Budget
           THEN /\ pc = "sleep"
                /\ Len(delays) = attempt
                /\ delays[attempt] = GetDelay(retryConfig, attempt, 0)
                /\ result = NoResult
           ELSE /\ pc = "done"
                /\ result = RaisedError("NetworkException", 0,
                                        LastOutcome.reason, attempt)

\* a connection failure ends an execution whose config retries timeouts and
\* that had attempts left, after an earlier timeout was retried
C6_Witness ==
    /\ AttemptHandled
    /\ attempt = 2
    /\ attempt < Budget
    /\ RetryActive
    /\ outcomes = <<NetworkOutcome("Timeout"), NetworkOutcome("ConnectionFailed")>>
    /\ result.type = "NetworkException"

C8_ResponsePhasePerAttempt ==
    /\ respPhases = Cardinality({i \in 1..Len(outcomes) : outcomes[i].kind = "response"})
    /\ NoDuplicates(respOrder)
    /\ Range(respOrder) \subseteq Range(EffectiveFilters)
    /\ (AttemptHandled /\ LastOutcome.kind = "response" /\ ~ResponseFilterRaised)
          => Len(respOrder) = Len(EffectiveFilters)
    /\ result.kind = "response"
          => /\ pc = "done"
             /\ result.attemptNo = Len(outcomes)
             /\ LastOutcome.kind = "response"
             /\ result.status = LastOutcome.status

\* a retried 503 response has been seen by two filters and is being discarded
C8_Witness ==
    /\ pc = "sleep"
    /\ LastOutcome = ResponseOutcome(503)
    /\ Len(respOrder) = 2
    /\ respPhases = 2

\* C9: when the last attempt of the budget has been made, the execution has
\* ended with that attempt's outcome: its Response (retryable status or not),
\* or its network error, or the error a response filter made of its response.
C9_LastOutcomeIsResult ==
    (AttemptHandled /\ attempt = Budget)
        => /\ pc = "done"
           /\ result.attemptNo = attempt
           /\ IF LastOutcome.kind = "network"
              THEN result = RaisedError("NetworkException", 0,
                                        LastOutcome.reason, attempt)
              ELSE \/ result = ReturnedResponse(LastOutcome.status, attempt)
                   \/ /\ ResponseFilterRaised
                      /\ result.status = LastOutcome.status
                      /\ ~IsSuccessStatusCode(LastOutcome.status)

\* the budget of three attempts ended on a 503, which is returned
C9_Witness ==
    /\ RetryActive
    /\ Budget = 3
    /\ attempt = 3
    /\ ShouldRetry(retryConfig, 503, FALSE)
    /\ result = ReturnedResponse(503, 3)

\* C10: under each reference retry policy, a response with a 4xx status other
\* than 429 ends the attempt loop.
C10_ClientErrorsNotRetried ==
    (/\ AttemptHandled
     /\ LastOutcome.kind = "response"
     /\ LastOutcome.status >= 400
     /\ LastOutcome.status < 500
     /\ LastOutcome.status # 429)
        => pc = "done"

\* a 404 ended an execution under a server-error policy with attempts left
C10_Witness ==
    /\ RetryActive
    /\ retryConfig.kind = "ServerError"
    /\ attempt < Budget
    /\ AttemptHandled
    /\ LastOutcome = ResponseOutcome(404)
    /\ pc = "done"

\* C11: when the onRequest hook of a filter raises during an execution, the
\* hooks invoked are those of a sorted request order up to the first raising
\* filter and of no later filter, the execution ends with the raised error,
\* and neither then nor later is the transport called or a response filter run.
C11_RequestFilterAborts ==
    /\ [][(/\ pc = "build"
           /\ pc' # "build"
           /\ \E f \in Range(EffectiveFilters) : OnRequestRaises(f, limiter) # "")
             => /\ pc' = "done"
                /\ result'.kind = "error"
                /\ Len(reqOrder') >= 1
                /\ result'.type = OnRequestRaises(reqOrder'[Len(reqOrder')], limiter)
                /\ \A i \in 1..(Len(reqOrder') - 1) :
                      OnRequestRaises(reqOrder'[i], limiter) = ""
                /\ \E order \in SortAscending(EffectiveFilters) :
                      IsPrefix(reqOrder', order)
                /\ outcomes' = <<>>
                /\ respPhases' = 0
                /\ respOrder' = <<>>]_vars
    /\ []((result.kind = "error" /\ result.attemptNo = 0)
             => (outcomes = <<>> /\ respPhases = 0 /\ respOrder = <<>>))

\* the RateLimit filter raised after the Logging filter ran; the DefaultError
\* filter, later in the request order, was not invoked
C11_Witness ==
    /\ pc = "done"
    /\ result.type = "RateLimitException"
    /\ result.attemptNo = 0
    /\ reqOrder = <<"log", "rl">>
    /\ "err" \in Range(EffectiveFilters)
    /\ outcomes = <<>>

\* the Client's filters whose type is not in removed
KeptClientFilters(removed) ==
    {f \in Range(clientFilters) : FilterType(f) \notin removed}

\* C12: the filters a Request invokes, in the request phase and in the
\* response phase, are the Client's filters whose type it did not remove
\* together with the filters added to it; a removal on the Request changes
\* neither the Client's collection nor the second Request, whose filters are
\* the Client's filters without the types removed on the second Request.
C12_EffectiveFiltersPerRequest ==
    /\ [](pc # "build"
            => /\ Range(reqOrder) =
                     KeptClientFilters(removedFilterTypes) \cup Range(additionalFilters)
               /\ NoDuplicates(reqOrder)
               /\ Range(respOrder) \subseteq Range(reqOrder)
               /\ (AttemptHandled /\ ~ResponseFilterRaised)
                     => Range(respOrder) = Range(reqOrder))
    /\ [](siblingPc = "done"
            => /\ Range(siblingOrder) = KeptClientFilters(siblingRemoved)
               /\ NoDuplicates(siblingOrder))
    /\ [][removedFilterTypes' # removedFilterTypes
            => (clientFilters' = clientFilters /\ siblingVars' = siblingVars)]_vars

\* the Request removed MockFilter: the Client's mockA was skipped, its own
\* mockB ran in both phases, and the second Request still ran mockA
C12_Witness ==
    /\ pc = "done"
    /\ removedFilterTypes = {"MockFilter"}
    /\ "mockA" \in Range(clientFilters)
    /\ "mockA" \notin Range(reqOrder)
    /\ "mockB" \in Range(reqOrder)
    /\ "mockB" \in Range(respOrder)
    /\ siblingPc = "done"
    /\ "mockA" \in Range(siblingOrder)

\* Request r has completed an exchange
ExchangeDone(r) == exchanges[r] >= 1 /\ bridgePc[r] = "idle"

\* C13: every exchange a Request has completed was carried out with that
\* Request's own URL, method, headers and body, its response went to that
\* Request's own buffers, and no other Request reset or reconfigured the
\* handle while the transfer ran.
C13_ExchangesAreIsolated ==
    \A r \in Requests :
        ExchangeDone(r)
            => /\ sentAs[r] = r
               /\ deliveredTo[r] = r
               /\ ~disturbed[r]

\* the position of filter f in the sequence order, 0 if it is not in it
PositionIn(order, f) ==
    IF f \in Range(order) THEN CHOOSE i \in 1..Len(order) : order[i] = f ELSE 0

\* C14: in every attempt in which the DefaultError filter's onResponse ran, it
\* ran last: the onResponse of every Logging and RateLimit filter of the
\* Request had already run, for error responses too.
C14_DefaultErrorRunsLast ==
    (AttemptHandled /\ LastOutcome.kind = "response" /\ "err" \in Range(respOrder))
        => \A f \in Range(EffectiveFilters) :
              FilterType(f) \in {"LoggingFilter", "RateLimitFilter"}
                 => /\ f \in Range(respOrder)
                    /\ PositionIn(respOrder, f) < PositionIn(respOrder, "err")

\* the exception classes DefaultErrorFilter raises
ApiErrorTypes == {"ApiException", "RateLimitException", "AuthException"}

\* the execution ended with an exception raised in the response phase of its
\* last attempt
RaisedInResponsePhase ==
    /\ pc = "done"
    /\ result.kind = "error"
    /\ result.attemptNo >= 1
    /\ Len(outcomes) = result.attemptNo
    /\ LastOutcome.kind = "response"

\* C15: an Api-family error of the response phase is raised only with
\* httpErrorAsException = not ignoreHttpErrors true and for a status that is
\* not 2xx; for 429 it is a RateLimit error whose retryAfter is the value of
\* the response's Retry-After header in seconds, for 401 and 403 an Auth error
\* carrying which of the two, for any other status an Api error; with
\* ignoreHttpErrors set no such error is raised.
C15_DefaultErrorTranslation ==
    /\ (RaisedInResponsePhase /\ result.type \in ApiErrorTypes)
          => /\ ignoreHttpErrors # "true"
             /\ "err" \in Range(respOrder)
             /\ result.status = LastOutcome.status
             /\ ~(result.status >= 200 /\ result.status < 300)
             /\ (result.status = 429) <=> (result.type = "RateLimitException")
             /\ (result.status \in {401, 403}) <=> (result.type = "AuthException")
             /\ result.status = 401 => raisedDetail.authReason = "Unauthorized"
             /\ result.status = 403 => raisedDetail.authReason = "Forbidden"
             /\ (result.status = 429 /\ respHeaders = ("Retry-After" :> <<"2">>))
                   => raisedDetail.retryAfter = 2
             /\ (result.status = 429 /\ respHeaders = ("retry-after" :> <<"7">>))
                   => raisedDetail.retryAfter = 7
    /\ (pc = "done" /\ ignoreHttpErrors = "true" /\ result.attemptNo >= 1)
          => result.type \notin ApiErrorTypes
    /\ (/\ AttemptHandled
        /\ LastOutcome.kind = "response"
        /\ "err" \in Range(respOrder)
        /\ ignoreHttpErrors # "true"
        /\ ~(LastOutcome.status >= 200 /\ LastOutcome.status < 300))
          => (RaisedInResponsePhase /\ result.type \in ApiErrorTypes)

\* a 429 with Retry-After: 2 was turned into a RateLimit error of 2 seconds
C15_Witness ==
    /\ RaisedInResponsePhase
    /\ result.type = "RateLimitException"
    /\ respHeaders = ("Retry-After" :> <<"2">>)
    /\ raisedDetail.retryAfter = 2

\* the latest dispatcher outcome of the coordinator, as (statusCode, isTimeout)
CoordLastOutcome == coordOutcomes[Len(coordOutcomes)]

CoordLastIsTimeout ==
    CoordLastOutcome.kind = "network" /\ CoordLastOutcome.reason = "Timeout"

\* the configs of the coordinator whose shouldRetry accepts the latest outcome
CoordAccepting ==
    {i \in 1..Len(coordConfigs) :
        ShouldRetry(coordConfigs[i], CoordLastOutcome.status, CoordLastIsTimeout)}

\* C16: the delay the coordinator sleeps after a failure is the largest
\* getDelay among exactly the configs whose shouldRetry accepts that failure;
\* in particular with a 5xx-policy and a 429-policy a 429 is followed by the
\* 429-policy's delay and a 503 by the 5xx-policy's delay, whatever the delay
\* parameters of the policies are.
C16_DelayOfAcceptingConfigs ==
    coordPc = "sleep"
        => /\ CoordAccepting # {}
           /\ coordDelays[Len(coordDelays)] =
                 MaxOf({GetDelay(coordConfigs[i], coordAttempt,
                                 CoordLastOutcome.status) : i \in CoordAccepting})

\* the retries the coordinator has made
CoordRetriesMade == Len(coordOutcomes) - 1

\* the largest maxRetries of the coordinator's configs, 0 without configs
CoordM ==
    IF coordConfigs = <<>> THEN 0
    ELSE LET S == {coordConfigs[i].maxRetries : i \in 1..Len(coordConfigs)}
         IN IF MaxOf(S) < 0 THEN 0 ELSE MaxOf(S)

\* C17: after each outcome the coordinator goes on to dispatch again exactly
\* when some config accepts the outcome and fewer than M retries have been
\* made; it calls the dispatcher at most M+1 times, and it ends with the last
\* response returned or the last network error rethrown.
C17_CoordinatorRetriesUpToMax ==
    /\ Len(coordOutcomes) <= CoordM + 1
    /\ coordPc \in {"sleep", "done"}
          => /\ Len(coordOutcomes) = coordAttempt
             /\ (coordPc = "sleep") <=>
                   (CoordAccepting # {} /\ CoordRetriesMade < CoordM)
    /\ coordPc = "done"
          => coordResult =
                IF CoordLastOutcome.kind = "response"
                THEN ReturnedResponse(CoordLastOutcome.status, coordAttempt)
                ELSE RaisedError("NetworkException", 0, CoordLastOutcome.reason,
                                 coordAttempt)

\* a 429 accepted only by the rate-limit policy was retried twice, the budget
\* of the server-error policy, and the third 429 was returned
C17_Witness ==
    /\ coordPc = "done"
    /\ coordConfigs = <<ServerErrorRetryConfig(2, 10, 25), RateLimitRetryConfig(1)>>
    /\ coordOutcomes = <<ResponseOutcome(429), ResponseOutcome(429),
                         ResponseOutcome(429)>>
    /\ coordResult = ReturnedResponse(429, 3)

\* C18: when a 429 response is retried under the rate-limit retry policy, the
\* delay slept before the retry is the number of seconds of the response's
\* Retry-After header, and the fixed fallback only when the response has no
\* such header.
C18_RetryAfterDrivesDelay ==
    (/\ pc = "sleep"
     /\ RetryActive
     /\ retryConfig.kind = "RateLimit"
     /\ LastOutcome = ResponseOutcome(429))
        => /\ respHeaders = ("Retry-After" :> <<"2">>)
                 => delays[Len(delays)] = 2 * 1000
           /\ respHeaders = ("retry-after" :> <<"7">>)
                 => delays[Len(delays)] = 7 * 1000
           /\ DOMAIN respHeaders \cap {"Retry-After", "retry-after"} = {}
                 => delays[Len(delays)] = RateLimitDelayMs

\* v doubled times times, but no further than cap
RECURSIVE CappedDouble(_, _, _)
CappedDouble(v, times, cap) ==
    IF times = 0 \/ v >= cap \/ v = 0 THEN Min(v, cap)
    ELSE CappedDouble(2 * v, times - 1, cap)

\* C19: for every attempt k >= 1 the delay getDelay returned equals
\* min(initialDelay * 2^(k-1), maxDelay); it is not negative, not above
\* maxDelay and not below the delay of attempt k-1, also for the attempts at
\* which 2^(k-1) does not fit a 32-bit signed integer.
C19_BackoffIsCappedExponential ==
    \A k \in 1..Len(backoffDelay) :
        /\ backoffDelay[k] =
              CappedDouble(backoffConfig.initialDelay, k - 1, backoffConfig.maxDelay)
        /\ backoffDelay[k] >= 0
        /\ backoffDelay[k] <= backoffConfig.maxDelay
        /\ k > 1 => backoffDelay[k - 1] <= backoffDelay[k]

WaitCalled == limiterCall.op = "waitIfNeeded"

\* C21: waitIfNeeded returns at once when canMakeRequest() holds; when
\* blocked with the daily window exhausted it returns no earlier than the
\* daily reset time, whatever the hourly window's state, and otherwise no
\* earlier than the hourly reset time; when the chosen reset time has already
\* passed it returns without sleeping.
C21_WaitIfNeededWaitsForReset ==
    WaitCalled =>
        LET lim == limiterCall.before
            called == limiterCall.calledAt
            returned == limiterCall.returnedAt
            chosen == IF lim.dailyRemaining <= 0 THEN lim.dailyReset
                      ELSE lim.hourlyReset
        IN /\ CanMakeRequest(lim) => returned = called
           /\ ~CanMakeRequest(lim) /\ chosen > called => returned >= chosen
           /\ ~CanMakeRequest(lim) /\ chosen <= called => returned = called

\* waitIfNeeded was called with dailyRemaining 0, the daily reset 5 s ahead
\* and hourlyRemaining 10, and returned between 5 s and 5 s plus one clock
\* step later
C21_Witness ==
    /\ WaitCalled
    /\ limiterCall.before.dailyRemaining = 0
    /\ limiterCall.before.hourlyRemaining = 10
    /\ limiterCall.before.dailyReset = limiterCall.calledAt + 5 * MillisPerSecond
    /\ limiterCall.returnedAt >= limiterCall.calledAt + 5 * MillisPerSecond
    /\ limiterCall.returnedAt <= limiterCall.calledAt + 5 * MillisPerSecond + ClockStep

\* the six fields are those waitIfNeeded was called with
C22_FieldsAsBeforeWait ==
    WaitCalled =>
        /\ limiter = limiterCall.before
        /\ CanMakeRequest(limiter) <=> CanMakeRequest(limiterCall.before)

\* a step that changes one of the six fields is an updateFromHeaders or a
\* loadState call on the limiter of the step
C22_OnlyUpdatesChangeFields ==
    limiter' # limiter =>
        /\ limiterCall'.op \in {"updateFromHeaders", "loadState"}
        /\ limiterCall'.before = limiter

\* C22: waitIfNeeded never changes any of the six limiter fields, whether it
\* returns at once, after sleeping or because the reset time had passed: a
\* limiter that was blocked when waitIfNeeded was called is still blocked on
\* return, and the fields change only by updateFromHeaders or loadState.
C22_WaitIfNeededKeepsFields ==
    [](C22_FieldsAsBeforeWait) /\ [][C22_OnlyUpdatesChangeFields]_vars

\* waitIfNeeded slept until the reset time and the limiter is still blocked
C22_Witness ==
    /\ WaitCalled
    /\ limiterCall.returnedAt > limiterCall.calledAt
    /\ now >= WaitUntil(limiter)
    /\ ~CanMakeRequest(limiter)

\* the number a string of decimal digits denotes
RECURSIVE Decimal(_)
Decimal(text) ==
    IF text = <<>> THEN 0
    ELSE 10 * Decimal(SubSeq(text, 1, Len(text) - 1)) + DigitValue(text[Len(text)])

AllDigits(text) == text # <<>> /\ \A i \in 1..Len(text) : text[i] \in DigitChars

\* the names in headers that are the header of an update step, in any case
NamesOf(headers, step) == {k \in DOMAIN headers : ToLower(k) = step.header}

\* what a header text of decimal digits sets the field of an update step to
FieldValue(step, text) ==
    IF step.time THEN Decimal(text) * MillisPerSecond ELSE Decimal(text)

\* C23: updateFromHeaders matches the six header names in any case; a field
\* whose header is absent keeps its prior value, a field changes only when its
\* header is present, and a header holding a number sets its field to that
\* number when the call returns normally.
C23_UpdateTouchesOnlyPresentHeaders ==
    limiterCall.op = "updateFromHeaders" =>
        \A i \in 1..Len(UpdateSteps) :
            LET step == UpdateSteps[i]
                names == NamesOf(limiterCall.headers, step)
                old == limiterCall.before[step.field]
                new == limiter[step.field]
            IN /\ names = {} => new = old
               /\ new # old => names # {}
               /\ (/\ names # {}
                   /\ ~limiterCall.threw
                   /\ \A k \in names : AllDigits(limiterCall.headers[k]))
                  => new \in {FieldValue(step, limiterCall.headers[k]) : k \in names}

\* an update whose headers are written in mixed case has set the daily
\* remainder to 3 and the hourly remainder to 10 and left the other four
\* fields, which earlier updates had changed, as they were
C23_Witness ==
    /\ limiterCall.op = "updateFromHeaders"
    /\ "X-RL-Daily-Remaining" \in DOMAIN limiterCall.headers
    /\ limiterCall.before.dailyRemaining = 0
    /\ limiterCall.before.dailyReset = 1005 * MillisPerSecond
    /\ limiter.dailyRemaining = 3
    /\ limiter.hourlyRemaining = 10
    /\ limiter.dailyReset = limiterCall.before.dailyReset
    /\ limiter.hourlyReset = limiterCall.before.hourlyReset
    /\ limiter.dailyLimit = limiterCall.before.dailyLimit

\* C24 as stated: after saveState and loadState of the file into a freshly
\* constructed limiter, the fresh limiter has the same six field values as
\* the saved one, the two reset timestamps included.
C24_RoundTripIsIdentity ==
    roundTrip.done => roundTrip.loaded = roundTrip.saved

\* a time point cut to whole seconds
WholeSeconds(t) == (t \div MillisPerSecond) * MillisPerSecond

\* C24 amended: after saveState and loadState of the file into a freshly
\* constructed limiter, the fresh limiter has the four counters of the saved
\* one and its two reset timestamps cut to whole seconds.
C24_RoundTripUpToSeconds ==
    roundTrip.done =>
        /\ roundTrip.loaded.dailyLimit = roundTrip.saved.dailyLimit
        /\ roundTrip.loaded.dailyRemaining = roundTrip.saved.dailyRemaining
        /\ roundTrip.loaded.hourlyLimit = roundTrip.saved.hourlyLimit
        /\ roundTrip.loaded.hourlyRemaining = roundTrip.saved.hourlyRemaining
        /\ roundTrip.loaded.dailyReset = WholeSeconds(roundTrip.saved.dailyReset)
        /\ roundTrip.loaded.hourlyReset = WholeSeconds(roundTrip.saved.hourlyReset)

\* a limiter that was constructed half a second after a whole second and
\* updated from headers was saved, and a limiter constructed later loaded it
C24_Witness ==
    /\ roundTrip.done
    /\ roundTrip.saved.dailyRemaining = 5
    /\ roundTrip.saved.dailyReset # WholeSeconds(roundTrip.saved.dailyReset)
    /\ roundTrip.loaded.dailyRemaining = 5
    /\ roundTrip.loaded.dailyReset # NewLimiter(now).dailyReset

\* the latest call on the limiter was loadState on a path without a file
LoadedMissingFile == limiterCall.op = "loadState" /\ ~limiterCall.file.exists

\* C25: loadState on a path where no file exists raises no error and leaves
\* all six fields unchanged; on a freshly constructed limiter these are daily
\* limit and remaining 20000 with the reset 24 h after construction and hourly
\* limit and remaining 500 with the reset 1 h after construction.
C25_MissingFileKeepsState ==
    LoadedMissingFile =>
        /\ ~limiterCall.threw
        /\ limiter = limiterCall.before
        /\ limiterCall.before = NewLimiter(StartTime) =>
              limiter = [dailyLimit |-> 20000, dailyRemaining |-> 20000,
                         dailyReset |-> StartTime + 24 * 3600 * 1000,
                         hourlyLimit |-> 500, hourlyRemaining |-> 500,
                         hourlyReset |-> StartTime + 3600 * 1000]

\* loadState found no file, on a limiter whose remainders an update had set
\* to 5 and 0
C25_Witness ==
    /\ LoadedMissingFile
    /\ limiter.dailyRemaining = 5
    /\ limiter.hourlyRemaining = 0

\* the values the asJson calls that returned handed back
JsonValuesReturned ==
    UNION {{jsonResults[c][i].value :
               i \in {j \in 1..Len(jsonResults[c]) : ~jsonResults[c][j].threw}} :
           c \in Callers}

\* the strings the asString calls handed back
StringsReturned ==
    UNION {{stringResults[c][i] : i \in 1..Len(stringResults[c])} :
           c \in Callers}

\* C26: for any sequence of asJson() and asString() calls on one Response,
\* made by one or several threads, and for every body, valid JSON or not, the
\* body is parsed as JSON at most once and converted to a string at most
\* once, and the calls that return all return the same value.
C26_ConversionsAtMostOnce ==
    /\ parses <= 1
    /\ conversions <= 1
    /\ Cardinality(JsonValuesReturned) <= 1
    /\ Cardinality(StringsReturned) <= 1

\* the retry configs configured on the Client, by setRequestCoordinator and
\* by setRetryPolicy
ClientConfigs == clientCoordinator.configs \o clientRetryPolicy

\* the Client's configs accept the outcome of an attempt
ClientAccepts(outcome) ==
    CoordinatorShouldRetry(ClientConfigs, outcome.status,
                           outcome.kind = "network" /\ outcome.reason = "Timeout")

\* C27: a Request that sets no retry config of its own runs its attempt loop
\* under the retry policy or coordinator configured on its Client: when the
\* outcome of its first attempt is one the Client's configs retry and they
\* allow a retry, the Request makes a second attempt.
C27_ClientRetryPolicyApplies ==
    (/\ pc = "done"
     /\ retryConfig = NoConfig
     /\ ~disableRetry
     /\ Len(outcomes) >= 1
     /\ ClientAccepts(outcomes[1])
     /\ CoordinatorGetMaxRetries(ClientConfigs) >= 1)
    => Len(outcomes) >= 2

\* C28: an option the Request leaves unset takes the Client's default when
\* the Request executes: with the Client default ignoreHttpErrors = true the
\* response filters receive httpErrorAsException = false and no HTTP error is
\* raised, and a Request whose timeout is unset, also after withOptions, uses
\* the Client's default timeout.
C28_UnsetOptionsInheritDefaults ==
    pc = "done" =>
        /\ (ignoreHttpErrors = "unset" /\ clientOptions.ignoreHttpErrors = "true")
           => /\ ~HttpErrorAsException
              /\ result.type # "ApiException"
        /\ (~timeout.has /\ clientOptions.timeout.has)
           => ConfigTimeout(timeout) = clientOptions.timeout.value

\* the steps of applyLog of the given kind, in the order they were taken
StepsOf(kind) == {i \in 1..Len(applyLog) : applyLog[i].step = kind}

\* C29: when a Request executes, every header set on the Request keeps the
\* Request's value, also under the case-insensitive lookup of its HTTP header
\* name (no Client default replaces it), every Client default header whose
\* name is not set on the Request is added with the Client's value, and the
\* default customizers run after the merge and before any filter's onRequest.
C29_MergeKeepsRequestHeaders ==
    applyLog # <<>> =>
        LET before == applyLog[1].headers
            merged == applyLog[2].headers
        IN /\ applyLog[1].step = "enter"
           /\ applyLog[2].step = "merge"
           /\ \A k \in DOMAIN before :
                /\ merged[k] = before[k]
                /\ FindHeader(merged, k) = before[k]
           /\ \A k \in DOMAIN defaultHeaders_ :
                k \notin DOMAIN before =>
                    k \in DOMAIN merged /\ merged[k] = defaultHeaders_[k]
           /\ \A i \in StepsOf("customizer") :
                /\ i > 2
                /\ \A j \in StepsOf("onRequest") : i < j
           /\ Cardinality(StepsOf("customizer")) = Len(defaultCustomizers_)

\* a sequence of characters without its trailing '/'
WithoutTrailingSlash(str) ==
    IF str # <<>> /\ str[Len(str)] = "/" THEN SubSeq(str, 1, Len(str) - 1)
    ELSE str

\* a sequence of characters without its leading '/'
WithoutLeadingSlash(str) ==
    IF str # <<>> /\ Head(str) = "/" THEN Tail(str) ELSE str

\* the percent-encoded key=value pairs joined by '&' in insertion order
RECURSIVE JoinedPairs(_)
JoinedPairs(params) ==
    IF params = <<>> THEN <<>>
    ELSE LET last == params[Len(params)]
             front == SubSeq(params, 1, Len(params) - 1)
         IN JoinedPairs(front)
            \o (IF front = <<>> THEN <<>> ELSE <<"&">>)
            \o UrlEncode(last[1]) \o <<"=">> \o UrlEncode(last[2])

\* the URL built from the latest call's inputs; builtUrl is compared with the
\* inputs of the same state, so the inputs must not have changed since
UrlIsCurrent ==
    builtUrl.built /\ builtUrl.url = BuildFullUrl(baseUrl_, resource_, queryParams_)

\* C30: whether or not the base URL ends with '/' and the resource starts
\* with '/', the built URL is the base, exactly one '/', the resource and,
\* when there are query parameters, '?' and the percent-encoded key=value
\* pairs joined by '&' in insertion order.
C30_ExactlyOneSeparator ==
    (UrlIsCurrent /\ resource_ # <<>>) =>
        builtUrl.url =
            WithoutTrailingSlash(baseUrl_) \o <<"/">>
            \o WithoutLeadingSlash(resource_)
            \o (IF queryParams_ = <<>> THEN <<>>
                ELSE <<"?">> \o JoinedPairs(queryParams_))

\* the fields of lim hold the numbers of the limiter headers present in
\* headers, and the fields without a header are those of old
IngestedFrom(lim, old, headers) ==
    \A i \in 1..Len(UpdateSteps) :
        LET step == UpdateSteps[i]
            names == NamesOf(headers, step)
        IN /\ names = {} => lim[step.field] = old[step.field]
           /\ (names # {} /\ \A k \in names : AllDigits(headers[k]))
                 => lim[step.field] \in {FieldValue(step, headers[k]) : k \in names}

\* C31: with a RateLimit filter among the effective filters, an execution
\* started while canMakeRequest() is false ends with a RateLimit error without
\* any transport call; and an attempt whose response reaches the filter leaves
\* the limiter updated from that response's headers.
C31_RateLimitFilterGuardsAndIngests ==
    /\ [][(/\ pc = "build"
           /\ pc' # "build"
           /\ "rl" \in Range(EffectiveFilters)
           /\ ~CanMakeRequest(limiter))
             => /\ pc' = "done"
                /\ result'.kind = "error"
                /\ result'.type = "RateLimitException"
                /\ outcomes' = <<>>
                /\ limiter' = limiter]_vars
    /\ []((pc = "done" /\ result.type = "RateLimitException" /\ result.attemptNo = 0)
             => outcomes = <<>>)
    /\ [][(respPhases' = respPhases + 1 /\ "rl" \in Range(respOrder'))
             => IngestedFrom(limiter', limiter, respHeaders')]_vars

\* a response carrying the two remaining headers reached the RateLimit filter
\* of a Request that started with a fresh limiter, and the limiter holds them
C31_Witness ==
    /\ AttemptHandled
    /\ "rl" \in Range(respOrder)
    /\ respHeaders = ("x-rl-daily-remaining" :> <<"5">>)
                        @@ ("x-rl-hourly-remaining" :> <<"0">>)
    /\ limiter.dailyRemaining = 5
    /\ limiter.hourlyRemaining = 0
    /\ limiter.dailyLimit = DefaultDailyLimit

\* the invocation reports the whole file: it is the one for the final chunk
ForFinalChunk(invocation) == invocation.dlnow = FileBytes

\* C32: two consecutive invocations of the progress callback are at least
\* 100 ms apart unless the later one is the invocation for the final chunk,
\* and once the transfer is complete its completion has been reported,
\* also when the total size is unknown and reported as 0.
C32_ThrottledButCompletionReported ==
    /\ \A i \in 2..Len(invocations) :
          \/ invocations[i].at - invocations[i - 1].at >= MinIntervalMs
          \/ ForFinalChunk(invocations[i])
    /\ transferDone =>
          /\ invocations # <<>>
          /\ ForFinalChunk(invocations[Len(invocations)])

\* the entries of s equal to f
Occurrences(s, f) == Cardinality({i \in 1..Len(s) : s[i] = f})

\* C33: after any sequence of add, remove, removeAll and clear, all() is in
\* non-decreasing priority order and size() is the number of filters added
\* minus the number removed; remove(filter) returns true and removes exactly
\* one entry when the filter is present, and returns false and changes
\* nothing when it is not.
C33_CollectionSortedAndCounted ==
    /\ [](\A i, j \in 1..Len(filters_) :
            i < j => Priority(filters_[i]) <= Priority(filters_[j]))
    /\ [](Len(filters_) = addedCount - removedCount)
    /\ [][lastRemove' # lastRemove =>
            LET f == lastRemove'.filter
            IN IF f \in Range(filters_)
               THEN /\ lastRemove'.returned
                    /\ Len(filters_') = Len(filters_) - 1
                    /\ Occurrences(filters_', f) = Occurrences(filters_, f) - 1
                    /\ \A g \in Range(filters_) \ {f} :
                          Occurrences(filters_', g) = Occurrences(filters_, g)
               ELSE /\ ~lastRemove'.returned
                    /\ filters_' = filters_]_vars

\* a filter added twice was removed once: one of its two entries is left,
\* next to a filter of lower priority
C33_Witness ==
    /\ lastRemove.called
    /\ lastRemove.returned
    /\ lastRemove.filter = "mockA"
    /\ Occurrences(lastRemove.before, "mockA") = 2
    /\ filters_ = <<"log", "mockA">>
    /\ addedCount = 3
    /\ removedCount = 1

\* the latest transfer of the get
LastTransfer == transfers[Len(transfers)]

ServerErrorStatus(status) == status >= 500 /\ status < 600

\* C34: HttpClient::get performs at most max_retries + 1 transfers; a
\* transfer is followed by another only if it was a network error or a 5xx
\* response, never a 4xx response; a get that ends on a 429 raises
\* RateLimitException and one that ends on a 401 or 403 raises AuthException;
\* with the retries exhausted it raises NetworkException for a network error
\* and ApiException for a 5xx response.
C34_GetRetriesAndTranslates ==
    /\ max_retries >= 0 => Len(transfers) <= max_retries + 1
    /\ \A i \in 1..(Len(transfers) - 1) :
          \/ ~transfers[i].ok
          \/ ServerErrorStatus(transfers[i].status)
    /\ (getPc = "done" /\ transfers # <<>> /\ LastTransfer.ok) =>
          /\ LastTransfer.status = 429 => getResult.type = "RateLimitException"
          /\ LastTransfer.status \in {401, 403} => getResult.type = "AuthException"
    /\ (getPc = "done" /\ max_retries >= 0 /\ Len(transfers) = max_retries + 1) =>
          /\ ~LastTransfer.ok => getResult.type = "NetworkException"
          /\ (LastTransfer.ok /\ ServerErrorStatus(LastTransfer.status))
                => getResult.type = "ApiException"

\* C35: within one execution the header merge, the default customizers and
\* the onRequest hook of each effective filter run exactly once, before the
\* first attempt: later steps of the execution, retries included, change
\* neither the record of these steps nor the headers, and only transport
\* calls and response phases are repeated.
C35_RequestPhaseRunsOnce ==
    /\ [][(applyLog' # applyLog \/ reqOrder' # reqOrder)
             => (pc = "build" /\ applyLog = <<>> /\ outcomes = <<>>)]_vars
    /\ [][pc # "build" => headers_' = headers_]_vars
    /\ [](pc # "build" =>
            /\ Cardinality(StepsOf("merge")) = 1
            /\ Cardinality(StepsOf("customizer")) = Len(defaultCustomizers_)
            /\ Cardinality(StepsOf("onRequest")) = Len(reqOrder)
            /\ NoDuplicates(reqOrder)
            /\ \A i \in StepsOf("onRequest") :
                  applyLog[i].by = reqOrder[i - 2 - Len(defaultCustomizers_)]
            /\ respPhases = Len(outcomes))
    /\ [](outcomes # <<>> => applyLog # <<>>)

\* an execution with a default customizer and a Logging filter made two
\* attempts, the first answered 503; merge, customizer and onRequest are in
\* the record once each
C35_Witness ==
    /\ pc = "done"
    /\ outcomes = <<ResponseOutcome(503), ResponseOutcome(200)>>
    /\ Len(defaultCustomizers_) = 1
    /\ reqOrder = <<"log">>
    /\ Len(applyLog) = 4
    /\ respPhases = 2

\* maxRetries >= 0 wherever a retry config is in force
NonNegativeRetries ==
    disableRetry \/ retryConfig.kind = "none" \/ retryConfig.maxRetries >= 0

\* C36: with maxRetries >= 0 an execution that got past the request-phase
\* filters leaves the top of an attempt either through the cancellation check
\* or through a transport call, an execution that ended uncancelled has
\* called the transport at least once, and it never ends with the
\* fall-through error "Request failed after retries".
C36_FallThroughUnreachable ==
    /\ [][(pc = "loop" /\ pc' # "loop" /\ NonNegativeRetries)
             => \/ /\ StopRequested
                   /\ result'.reason = "Request cancelled"
                   /\ outcomes' = outcomes
                \/ /\ ~StopRequested
                   /\ Len(outcomes') = Len(outcomes) + 1]_vars
    /\ []((pc = "done" /\ attempt >= 1 /\ NonNegativeRetries) =>
            /\ result.reason # "Request failed after retries"
            /\ (result.reason # "Request cancelled" => Len(outcomes) >= 1)
            /\ Len(outcomes) <= maxAttempts)
    /\ []((pc = "loop" /\ NonNegativeRetries) => attempt <= maxAttempts)

\* a request with maxRetries 0 and an armed, unstopped token ended after its
\* one transport call
C36_Witness ==
    /\ pc = "done"
    /\ retryConfig.kind = "ServerError"
    /\ retryConfig.maxRetries = 0
    /\ ~disableRetry
    /\ cancellationToken = "armed"
    /\ Len(outcomes) = 1
    /\ result.attemptNo = 1

(***************************************************************************)
(* updateFromHeaders on header maps with texts that are no numbers, called *)
(* in any order while the clock advances.                                  *)
(***************************************************************************)
\* sound maps, a reset header that is no number, a remaining header that is
\* no number before a sound one, and a map whose daily reset and hourly
\* limit are no numbers between sound headers
MalformedHeaders ==
    {("x-rl-daily-remaining" :> <<"5">>) @@ ("x-rl-hourly-remaining" :> <<"0">>)
         @@ ("x-rl-hourly-reset" :> <<"4", "6", "0", "0">>),
     ("x-rl-daily-limit" :> <<"5", "0">>) @@ ("x-rl-hourly-limit" :> <<"9">>),
     "x-rl-hourly-reset" :> <<"s", "o", "o", "n">>,
     ("x-rl-daily-remaining" :> <<"a", "b", "c">>)
         @@ ("x-rl-hourly-remaining" :> <<"7">>),
     ("x-rl-daily-limit" :> <<"1", "0", "0">>)
         @@ ("x-rl-daily-reset" :> <<"s", "o", "o", "n">>)
         @@ ("x-rl-hourly-limit" :> <<"x">>)
         @@ ("x-rl-hourly-remaining" :> <<"7">>),
     "X-RL-Hourly-Remaining" :> <<"-">>}

MalformedNext ==
    \/ \E headers \in MalformedHeaders : LimiterUpdateFromHeaders(headers)
    \/ LimiterClockAdvances

MalformedSpec == LimiterInit /\ [][MalformedNext]_vars

\* the text of the header the i-th assignment of updateFromHeaders reads
UpdateText(headers, i) == GetHeaderValue(headers, UpdateSteps[i].header)

\* a limit or remaining header that is present and from which std::stoi
\* reads no number
MalformedCount(headers, i) ==
    /\ ~UpdateSteps[i].time
    /\ UpdateText(headers, i) # <<>>
    /\ ~Stoi(UpdateText(headers, i)).ok

\* a reset header that is present and from which std::stoll reads no number
MalformedReset(headers, i) ==
    /\ UpdateSteps[i].time
    /\ UpdateText(headers, i) # <<>>
    /\ ~Stoll(UpdateText(headers, i)).ok

\* the position of the first malformed limit or remaining header, 7 if none
FirstMalformedCount(headers) ==
    LET bad == {i \in 1..Len(UpdateSteps) : MalformedCount(headers, i)}
    IN IF bad = {} THEN Len(UpdateSteps) + 1
       ELSE CHOOSE i \in bad : \A j \in bad : i <= j

\* C37: after updateFromHeaders, a malformed reset header has set the reset
\* time of its window to the time of the call and has not made the call
\* raise; the call raised exactly when a limit or remaining header is
\* malformed, the fields before the first such header hold what their
\* headers say and that field and the later ones hold their prior values.
C37_MalformedHeaders ==
    limiterCall.op = "updateFromHeaders" =>
        LET headers == limiterCall.headers
            first == FirstMalformedCount(headers)
        IN /\ limiterCall.threw <=> first <= Len(UpdateSteps)
           /\ \A i \in 1..Len(UpdateSteps) :
                 LET field == UpdateSteps[i].field
                     text == UpdateText(headers, i)
                 IN /\ i >= first => limiter[field] = limiterCall.before[field]
                    /\ (i < first /\ MalformedReset(headers, i))
                          => limiter[field] = limiterCall.calledAt
                    /\ (i < first /\ text = <<>>)
                          => limiter[field] = limiterCall.before[field]
                    /\ (i < first /\ ~UpdateSteps[i].time /\ text # <<>>)
                          => limiter[field] = Stoi(text).value
                    /\ (i < first /\ UpdateSteps[i].time /\ Stoll(text).ok)
                          => limiter[field] = Stoll(text).value * MillisPerSecond

\* an update with a malformed hourly limit raised after it wrote the daily
\* limit and set the daily reset, malformed as well, to the time of the call;
\* the hourly remainder kept its prior value although its header is sound
C37_Witness ==
    /\ limiterCall.op = "updateFromHeaders"
    /\ limiterCall.threw
    /\ FirstMalformedCount(limiterCall.headers) = 4
    /\ MalformedReset(limiterCall.headers, 3)
    /\ limiter.dailyLimit = 100
    /\ limiterCall.before.dailyLimit # 100
    /\ limiter.dailyReset = limiterCall.calledAt
    /\ limiterCall.before.dailyReset # limiterCall.calledAt
    /\ limiter.hourlyRemaining = limiterCall.before.hourlyRemaining
    /\ limiter.hourlyRemaining # 7

\* C38: saveState and loadState return normally whatever happens to the
\* file; saveState leaves the six fields alone and either writes the file or
\* leaves it as it was, and after loadState of an existing file that is not
\* valid JSON the six fields are those before the call.
C38_StateFileErrorsSwallowed ==
    /\ [](limiterCall.op \in {"saveState", "loadState"} => ~limiterCall.threw)
    /\ []((/\ limiterCall.op = "loadState"
           /\ limiterCall.file.exists
           /\ ~limiterCall.file.parses) => limiter = limiterCall.before)
    /\ [][limiterCall'.op = "saveState" =>
             /\ limiter' = limiter
             /\ stateFile' \in {stateFile, SaveState(limiter)}]_vars

\* a limiter whose hourly window a response had exhausted loaded a file that
\* is not valid JSON and is still exhausted
C38_Witness ==
    /\ limiterCall.op = "loadState"
    /\ limiterCall.file.exists
    /\ ~limiterCall.file.parses
    /\ limiter.hourlyRemaining = 0
    /\ limiter.dailyRemaining = 5

\* C39: the retry-after of the RateLimit filter's pre-flight error is the
\* time, in whole seconds, until the reset that waitIfNeeded waits for and
\* that timeUntilAllowed measures: the daily reset whenever the daily window
\* is exhausted, otherwise the hourly reset.
C39_PreflightWaitsForSameWindow ==
    (/\ pc = "done"
     /\ attempt = 0
     /\ result.type = "RateLimitException"
     /\ WaitUntil(limiter) > now) =>
        /\ raisedDetail.retryAfter =
              (WaitUntil(limiter) - now) \div MillisPerSecond
        /\ raisedDetail.retryAfter =
              TimeUntilAllowed(limiter, now) \div MillisPerSecond

\* the limiter after the update of first and then the update of second
SerialResult(first, second) ==
    UpdateFromHeaders(UpdateFromHeaders(raceStart, updHeaders[first], now).limiter,
                      updHeaders[second], now).limiter

\* the limiters that exist between the calls of some serial order
SerialLimiters ==
    {raceStart}
    \cup {UpdateFromHeaders(raceStart, updHeaders[u], now).limiter : u \in Updaters}
    \cup {SerialResult(u, v) : u, v \in Updaters}

\* C40: once two overlapping updateFromHeaders calls have returned, the six
\* fields are those the two updates give when applied one after the other in
\* one of the two orders; a canMakeRequest that ran alongside has read a
\* pair of remainders that the limiter holds between the calls of some
\* serial order.
C40_OverlappingUpdatesSerialize ==
    /\ (\A u \in Updaters : updPc[u] = Len(UpdateSteps) + 1) =>
          \E u, v \in Updaters : u # v /\ limiter = SerialResult(u, v)
    /\ (readerPc = "done" /\ observed.reads = 2) =>
          \E lim \in SerialLimiters :
             /\ observed.daily = lim.dailyRemaining
             /\ observed.hourly = lim.hourlyRemaining

====
